---- MODULE Spec2Model ----
(***************************************************************************)
(* State-machine model of the video generator library                      *)
(* (video_generator_init / _update / _clear and the audio tone thread).    *)
(*                                                                         *)
(* Conventions                                                             *)
(*  - u_factor / v_factor are doubles in {0.0, 0.5, 1.0}; the model keeps   *)
(*    twice their value (0, 1, 2), so (uint32_t)(n * factor) is            *)
(*    (n * f2) \div 2.                                                     *)
(*  - step = 1/(5*fps) and perc is a sum of steps; the model keeps perc as  *)
(*    the exact rational percN / step_den (step_den = 5*fps).              *)
(*  - pointers into the one plane allocation are byte offsets.             *)
(*  - the handle has static storage in the audio example (avgen.c:34), so   *)
(*    every field is zero before the first init.                           *)
(*  - the malloc of the plane buffer and the malloc of the thread's scratch  *)
(*    buffer may fail.                                                     *)
(*  - the clock is what ns() returned to the tone thread last; where no     *)
(*    clock is modelled a poll is due or not due.                          *)
(***************************************************************************)
EXTENDS Integers, Sequences, FiniteSets, TLC

VARIABLES
  cfg,        \* the caller's video_generator_settings
  g,          \* video_generator: the handle's fields
  audio_thread_must_stop, audio_is_bip, audio_is_bop,  \* the three shared flags of the handle
  audio_mutex,\* owner of g->audio_mutex: "free", "caller" or "tone"
  heap,       \* allocation state of the plane buffer, the ring, the thread handle, the mutex
  cpc,        \* position of the caller thread
  ret,        \* return value of the last completed API call
  life,       \* which API call completed last on the handle
  calls,      \* number of update calls completed since the last init (or since Init)
  wr,         \* byte extents written by the last update, per draw step and plane
  upd,        \* locals of an update that is waiting for the mutex
  t,          \* the tone thread: position and locals
  delivered,  \* number of audio_callback invocations of the running thread
  last,       \* the API call that returned last and the failure it met
  stop_at     \* callbacks the running thread had made when clear requested its stop (-1: no request)

vars == <<cfg, g, audio_thread_must_stop, audio_is_bip, audio_is_bop, audio_mutex,
          heap, cpc, ret, life, calls, wr, upd, t, delivered, last, stop_at>>

-----------------------------------------------------------------------------
(* Bounds of the model *)

\* update calls explored after one init
MaxFrames == 11
\* callback invocations explored when the caller's calls interleave with the thread
MaxDeliveries == 3
\* callback invocations explored when the thread runs a full cycle of ring offsets
MaxPassDeliveries == 11026
\* init calls explored on the one handle
MaxInits == 2
\* frame heights for which every position of the bar window is computed
MaxBarHeight == 24
\* chunk periods of clock time explored when the thread polls the clock
MaxClockPeriods == 4

Dims == {<<5, 10>>, <<8, 10>>, <<8, 11>>, <<171, 101>>, <<172, 102>>}
Formats == {400, 420, 422, 444}
BitDepths == {8, 10, 12}
ByteOrders == {0, 1}
FpsSet == {1, 2}

-----------------------------------------------------------------------------
(* Program constants *)

DEFAULT_WIDTH == 640
DEFAULT_HEIGHT == 480
DEFAULT_FPS == 3
DEFAULT_FORMAT == 420
DEFAULT_BITDEPTH == 8
DEFAULT_BYTE_ORDER == 0
RXS_MAX_CHARS == 11
TEXT_W == 170
TEXT_H == 100
AUDIO_MILLIS == 100
AUDIO_NCHANNELS == 2
AUDIO_SAMPLERATE == 44100
AUDIO_NSAMPLES == 1024
AUDIO_NSECONDS == 4
SIZEOF_INT16 == 2

Min(S) == CHOOSE m \in S : \A n \in S : m <= n
Max(S) == 0 - Min({0 - n : n \in S})

-----------------------------------------------------------------------------
(* PixelLayout *)

\* (uint32_t)(n * factor) for factor = f2/2
ScaleBy(n, f2) == (n * f2) \div 2

\* mutant: no case for 400, which then takes the default factors
select_yuv_format_No400(format) ==
  CASE format = 444 -> [u |-> 2, v |-> 2]
    [] format = 422 -> [u |-> 1, v |-> 2]
    [] OTHER        -> [u |-> 1, v |-> 1]

select_yuv_format(format) ==
  CASE format = 400 -> [u |-> 0, v |-> 0]
    [] format = 444 -> [u |-> 2, v |-> 2]
    [] format = 422 -> [u |-> 1, v |-> 2]
    [] OTHER        -> [u |-> 1, v |-> 1]

\* mutant: the default label sits on the 12-bit case
select_bitdepth_DefaultWide(bitdepth) ==
  CASE bitdepth = 10 -> [size |-> 2, factor |-> 4]
    [] bitdepth = 8  -> [size |-> 1, factor |-> 1]
    [] OTHER         -> [size |-> 2, factor |-> 16]

select_bitdepth(bitdepth) ==
  CASE bitdepth = 10 -> [size |-> 2, factor |-> 4]
    [] bitdepth = 12 -> [size |-> 2, factor |-> 16]
    [] OTHER         -> [size |-> 1, factor |-> 1]

\* init lines 415-420: zero settings are replaced by the defaults
ApplyDefaults(c) ==
  [c EXCEPT !.width      = IF c.width = 0 THEN DEFAULT_WIDTH ELSE c.width,
            !.height     = IF c.height = 0 THEN DEFAULT_HEIGHT ELSE c.height,
            !.fps        = IF c.fps = 0 THEN DEFAULT_FPS ELSE c.fps,
            !.format     = IF c.format = 0 THEN DEFAULT_FORMAT ELSE c.format,
            !.bitdepth   = IF c.bitdepth = 0 THEN DEFAULT_BITDEPTH ELSE c.bitdepth,
            !.byte_order = IF c.byte_order = 0 THEN DEFAULT_BYTE_ORDER ELSE c.byte_order]

YBytes(c, size) == c.width * c.height * size

\* mutant: the two chroma factors swapped
UBytes_Swapped(c, f, size) == ScaleBy(c.width, f.v) * ScaleBy(c.height, f.u) * size

UBytes(c, f, size) == ScaleBy(c.width, f.u) * ScaleBy(c.height, f.v) * size

NullPtr == [null |-> TRUE, off |-> 0]
Ptr(off) == [null |-> FALSE, off |-> off]

\* the handle with every field zero
ZeroHandle ==
  [frame |-> 0, y |-> NullPtr, u |-> NullPtr, v |-> NullPtr,
   width |-> 0, height |-> 0, ybytes |-> 0, ubytes |-> 0, vbytes |-> 0, nbytes |-> 0,
   u_factor |-> 0, v_factor |-> 0, pixel_size_in_bytes |-> 0, pixel_factor |-> 0,
   byte_order |-> 0, fps_num |-> 0, fps_den |-> 0, step_den |-> 0, percN |-> 0,
   audio_nchannels |-> 0, audio_nseconds |-> 0, audio_samplerate |-> 0,
   audio_bip_frequency |-> 0, audio_bop_frequency |-> 0,
   audio_bip_millis |-> 0, audio_bop_millis |-> 0,
   audio_nbytes |-> 0, audio_nsamples |-> 0,
   audio_buffer |-> FALSE, audio_callback |-> FALSE, audio_thread |-> FALSE]

\* init lines 423-472: the video members and the default audio members
InitVideo(h, c) ==
  LET f  == select_yuv_format(c.format)
      b  == select_bitdepth(c.bitdepth)
      yb == YBytes(c, b.size)
      ub == UBytes(c, f, b.size)
  IN [h EXCEPT
        !.frame = 0,
        !.u_factor = f.u, !.v_factor = f.v,
        !.pixel_size_in_bytes = b.size, !.pixel_factor = b.factor,
        !.ybytes = yb, !.ubytes = ub, !.vbytes = ub, !.nbytes = yb + ub + ub,
        !.width = c.width, !.height = c.height,
        !.y = Ptr(0), !.u = Ptr(yb), !.v = Ptr(yb + ub),
        !.step_den = 5 * c.fps, !.percN = 0,
        !.fps_num = 1, !.fps_den = c.fps, !.byte_order = c.byte_order,
        !.audio_bip_frequency = 0, !.audio_bop_frequency = 0,
        !.audio_nchannels = 0, !.audio_samplerate = 0, !.audio_nbytes = 0,
        !.audio_buffer = FALSE, !.audio_callback = FALSE, !.audio_thread = FALSE]

-----------------------------------------------------------------------------
(* Colour conversion and byte packing *)

\* x >> 8 on an int (arithmetic shift)
Shr8(x) == x \div 256

CLIP(x) == IF x > 255 THEN 255 ELSE IF x < 0 THEN 0 ELSE x
RGB2Y(r, gr, b) == CLIP(Shr8(66 * r + 129 * gr + 25 * b + 128) + 16)
RGB2U(r, gr, b) == CLIP(Shr8((0 - 38) * r - 74 * gr + 112 * b + 128) + 128)
RGB2V(r, gr, b) == CLIP(Shr8(112 * r - 94 * gr - 18 * b + 128) + 128)

LSB_LE(val) == val % 256
MSB_LE(val) == (val \div 256) % 256
LSB_BE(val) == (val \div 256) % 256
MSB_BE(val) == val % 256

\* mutant: the byte stored second is the low byte in either order
MSB_AlwaysLow(val, be) == MSB_BE(val)

MSB(val, be) == IF be # 0 THEN MSB_BE(val) ELSE MSB_LE(val)
LSB(val, be) == IF be # 0 THEN LSB_BE(val) ELSE LSB_LE(val)

\* (uint16_t)(RGB2x(r, g, b) * pixel_factor) for the three planes
Scaled(gen, rgb) ==
  [y |-> (RGB2Y(rgb[1], rgb[2], rgb[3]) * gen.pixel_factor) % 65536,
   u |-> (RGB2U(rgb[1], rgb[2], rgb[3]) * gen.pixel_factor) % 65536,
   v |-> (RGB2V(rgb[1], rgb[2], rgb[3]) * gen.pixel_factor) % 65536]

\* update lines 615-623
colors ==
  << <<255, 255, 255>>, <<255, 255, 0>>, <<0, 255, 255>>, <<0, 255, 0>>,
     <<255, 0, 255>>, <<255, 0, 0>>, <<0, 0, 255>> >>

\* update lines 675-677: the bar colour from the advanced perc, in uint8_t
BarColour(gen) ==
  LET u8(x) == x % 256
  IN << u8(255 - u8((255 * gen.percN) \div gen.step_den)),
        u8(30 + u8((235 * gen.percN) \div gen.step_den)),
        u8(150 + u8((205 * gen.percN) \div gen.step_den)) >>

\* p[k] = LSB(val, byte_order); p[k + 1] = MSB(val, byte_order): the two bytes one
\* iteration of a 2-byte loop stores for a sample, when the loop runs at all
StorePair(step, plane, val, be, runs) ==
  IF runs
    THEN {[step |-> step, plane |-> plane, value |-> val,
           first |-> LSB(val, be), second |-> MSB(val, be)]}
    ELSE {}

\* fill lines 765-804 with 2-byte samples: the pairs stored into the three planes
fill_pairs(gen, step, w, h, rgb) ==
  LET c  == Scaled(gen, rgb)
      hh == ScaleBy(h, gen.v_factor)
      ww == ScaleBy(w, gen.u_factor)
  IN StorePair(step, "y", c.y, gen.byte_order, h > 0 /\ w > 0)
       \cup StorePair(step, "u", c.u, gen.byte_order, hh > 0 /\ ww > 0)
       \cup StorePair(step, "v", c.v, gen.byte_order, hh > 0 /\ ww > 0)

\* update lines 678-711 with 2-byte samples: the pairs stored for the bar
bar_pairs(gen, bar) ==
  LET c      == Scaled(gen, BarColour(gen))
      stride == (gen.width * gen.v_factor * gen.pixel_size_in_bytes) \div 2
      rows   == ScaleBy(bar.nlines, gen.u_factor)
  IN StorePair("bar", "y", c.y, gen.byte_order, bar.nlines > 0 /\ gen.width > 0)
       \cup StorePair("bar", "u", c.u, gen.byte_order, rows > 0 /\ stride > 0)
       \cup StorePair("bar", "v", c.v, gen.byte_order, rows > 0 /\ stride > 0)

-----------------------------------------------------------------------------
(* Byte ranges written into a plane: sets of <<lo, hi>>, hi exclusive *)

\* memset(p + off, c, n)
Memset(off, n) == IF n > 0 THEN {<<off, off + n>>} ELSE {}

\* for (k = 0; k < n; k += inc) { p[base + k] = ...; p[base + k + 1] = ...; }
PairLoop(base, n, inc) ==
  IF n > 0 THEN {<<base, base + ((n - 1) \div inc) * inc + 2>>} ELSE {}

\* one past the highest byte offset written (0 when nothing is written)
Extent(S) == IF S = {} THEN 0 ELSE Max({r[2] : r \in S})

\* fill(): the luma loop, lines 778-788
fill_y(gen, x, y, w, h) ==
  UNION { IF gen.pixel_size_in_bytes = 2
            THEN PairLoop((j * gen.width + x) * gen.pixel_size_in_bytes,
                          w * gen.pixel_size_in_bytes, gen.pixel_size_in_bytes)
            ELSE Memset(j * gen.width + x, w)
          : j \in y .. (y + h - 1) }

\* fill(): the chroma loop, lines 771-775 and 791-804 (u and v get the same offsets)
fill_uv(gen, x, y, w, h) ==
  LET xx     == ScaleBy(x, gen.u_factor)
      yy     == ScaleBy(y, gen.v_factor)
      half_w == ScaleBy(gen.width, gen.u_factor)
      hh     == ScaleBy(h, gen.v_factor)
      ww     == ScaleBy(w, gen.u_factor)
  IN UNION { LET stride == (j * half_w + xx) * gen.pixel_size_in_bytes
             IN IF gen.pixel_size_in_bytes = 2
                  THEN PairLoop(stride, ww * gen.pixel_size_in_bytes, gen.pixel_size_in_bytes)
                  ELSE Memset(stride, ww)
             : j \in yy .. (yy + hh - 1) }

\* update lines 666-672: the 7 background bands
bands_y(gen) ==
  UNION { fill_y(gen, i * (gen.width \div 7), 0, gen.width \div 7, gen.height) : i \in 0..6 }

bands_uv(gen) ==
  UNION { fill_uv(gen, i * (gen.width \div 7), 0, gen.width \div 7, gen.height) : i \in 0..6 }

\* update lines 666-672 with fill lines 765 and 778-788: per band, the luma columns
\* [lo, hi) its fill covers in every row and the Y sample it stores there
band_columns(gen) ==
  LET w == gen.width \div 7
  IN { [band |-> i, lo |-> i * w, hi |-> i * w + w,
        value |-> IF gen.pixel_size_in_bytes = 2
                    THEN Scaled(gen, colors[i + 1]).y
                    ELSE Scaled(gen, colors[i + 1]).y % 256]
       : i \in { k \in 0..6 : w > 0 /\ gen.height > 0 } }

\* mutant: the bar window is not clipped to the frame
BarGeometry_NoClip(gen) ==
  [start_y |-> (0 - (gen.height \div 5))
                 + ((gen.percN * ((gen.height - 1) + (gen.height \div 5))) \div gen.step_den),
   nlines  |-> gen.height \div 5]

\* update lines 633-647: the visible window of the sweep bar, from the handle's perc
BarGeometry(gen) ==
  LET h     == gen.height - 1
      bar_h == gen.height \div 5
      raw   == (0 - bar_h) + ((gen.percN * (h + bar_h)) \div gen.step_den)
  IN IF raw < 0 THEN [start_y |-> 0, nlines |-> bar_h + raw]
     ELSE IF raw + bar_h > h THEN [start_y |-> raw, nlines |-> h - raw]
     ELSE [start_y |-> raw, nlines |-> bar_h]

\* mutant: wraps on > 1.0 instead of >= 1.0
AdvancePerc_LateWrap(gen) ==
  IF gen.percN + 1 > gen.step_den THEN 0 ELSE gen.percN + 1

\* update lines 650-653
AdvancePerc(gen) ==
  IF gen.percN + 1 >= gen.step_den THEN 0 ELSE gen.percN + 1

\* update line 655: the defensive check on the bar window
BarOutOfBounds(gen, bar) ==
  \/ bar.nlines + bar.start_y > gen.height
  \/ bar.nlines < 0
  \/ bar.start_y < 0
  \/ bar.start_y >= gen.height

\* update line 684: the luma rows the bar loop visits
bar_rows(bar) == bar.start_y .. (bar.start_y + bar.nlines - 1)

\* update lines 683-693: the luma rows of the bar
bar_y(gen, bar) ==
  LET stride == gen.width * gen.pixel_size_in_bytes
  IN UNION { IF gen.pixel_size_in_bytes = 2
               THEN PairLoop(i * stride, stride, 2)
               ELSE Memset(i * gen.width, gen.width)
             : i \in bar.start_y .. (bar.start_y + bar.nlines - 1) }

\* update lines 696-711: the chroma rows of the bar (rows scaled by u_factor, the
\* stride by v_factor, and the 2-byte loop advances k by one)
bar_uv(gen, bar) ==
  LET start_y == ScaleBy(bar.start_y, gen.u_factor)
      stride  == (gen.width * gen.v_factor * gen.pixel_size_in_bytes) \div 2
      end_y   == start_y + ScaleBy(bar.nlines, gen.u_factor)
  IN UNION { IF gen.pixel_size_in_bytes = 2
               THEN PairLoop(i * stride, stride, 1)
               ELSE Memset(i * stride, stride)
             : i \in start_y .. (end_y - 1) }

\* update lines 696-711: what the bar's chroma loop leaves in the U and the V plane:
\* the byte range [lo, hi) of the rows it visits and the bytes of the first sample.
\* The 2-byte loop advances k by one, so the byte stored second by one iteration is
\* overwritten by the byte stored first by the next (or by the next row's first).
bar_chroma(gen, bar) ==
  LET c       == Scaled(gen, BarColour(gen))
      start_y == ScaleBy(bar.start_y, gen.u_factor)
      stride  == (gen.width * gen.v_factor * gen.pixel_size_in_bytes) \div 2
      end_y   == start_y + ScaleBy(bar.nlines, gen.u_factor)
      left(val) ==
        IF gen.pixel_size_in_bytes = 2
          THEN << LSB(val, gen.byte_order),
                  IF stride >= 2 \/ end_y - start_y >= 2
                    THEN LSB(val, gen.byte_order) ELSE MSB(val, gen.byte_order) >>
          ELSE << val % 256 >>
  IN IF end_y > start_y /\ stride > 0
       THEN { [plane |-> "u", lo |-> start_y * stride, hi |-> end_y * stride,
               value |-> c.u, bytes |-> left(c.u)],
              [plane |-> "v", lo |-> start_y * stride, hi |-> end_y * stride,
               value |-> c.v, bytes |-> left(c.v)] }
       ELSE {}

-----------------------------------------------------------------------------
(* Timestamp box *)

numbersfont_char_data ==
  << 48, 109, 0, 25, 39, 3, 12, 31,   49, 239, 0, 15, 39, 6, 12, 31,
     50,  28, 0, 26, 39, 2, 12, 31,   51, 135, 0, 25, 39, 3, 12, 31,
     52,   0, 0, 27, 39, 1, 12, 31,   53, 161, 0, 25, 39, 3, 12, 31,
     54,  55, 0, 26, 39, 2, 12, 31,   55,  82, 0, 26, 39, 2, 12, 31,
     56, 187, 0, 25, 39, 3, 12, 31,   57, 213, 0, 25, 39, 3, 12, 31,
     58, 255, 0,  5, 29, 5, 22, 15 >>

\* init lines 446-457: g->chars[dx], dx = 0..10 (here 1..11)
chars ==
  [dx \in 1..RXS_MAX_CHARS |->
     LET i == 8 * (dx - 1)
     IN [id       |-> numbersfont_char_data[i + 1], x       |-> numbersfont_char_data[i + 2],
         y        |-> numbersfont_char_data[i + 3], width   |-> numbersfont_char_data[i + 4],
         height   |-> numbersfont_char_data[i + 5], xoffset |-> numbersfont_char_data[i + 6],
         yoffset  |-> numbersfont_char_data[i + 7], xadvance |-> numbersfont_char_data[i + 8]]]

\* add_char lines 852-858: one byte per glyph pixel, here one range per destination row
add_char(gen, kar, x, y) ==
  UNION { Memset((kar.yoffset + y + dj) * gen.width * gen.pixel_size_in_bytes + x, kar.width)
          : dj \in 0 .. (kar.height - 1) }

\* add_number_string lines 820-825: index of the glyph with this id, 0 when none
FindChar(c) ==
  IF \E k \in 1..RXS_MAX_CHARS : chars[k].id = c
    THEN CHOOSE k \in 1..RXS_MAX_CHARS :
           chars[k].id = c /\ \A m \in 1..(k - 1) : chars[m].id # c
    ELSE 0

RECURSIVE add_number_string(_, _, _, _)
add_number_string(gen, str, x, y) ==
  IF str = << >> THEN {}
  ELSE LET k == FindChar(Head(str))
       IN IF k = 0 THEN add_number_string(gen, Tail(str), x, y)
          ELSE add_char(gen, chars[k], x, y)
                 \cup add_number_string(gen, Tail(str), x + chars[k].xadvance, y)

\* the decimal digits of v as character codes
RECURSIVE Decimal(_)
Decimal(v) == IF v < 10 THEN << 48 + v >> ELSE Decimal(v \div 10) \o << 48 + (v % 10) >>

\* sprintf's %02zu: at least two digits, padded with '0'
Fmt02(v) == IF v < 10 THEN << 48 >> \o Decimal(v) ELSE Decimal(v)

\* mutant: the minutes are not reduced modulo 60
TimeString_NoMinuteWrap(gen) ==
  LET secs == gen.frame \div gen.fps_den
  IN Fmt02(secs \div 60) \o << 58 >> \o Fmt02(secs % 60)

\* update lines 736-739 and 754: sprintf("%02zu:%02zu", minutes, seconds) as character codes
TimeString(gen) ==
  LET secs    == gen.frame \div gen.fps_den
      minutes == (secs \div 60) % 60
      seconds == secs % 60
  IN Fmt02(minutes) \o << 58 >> \o Fmt02(seconds)

\* add_number_string lines 827-830: the characters of str that have no glyph
UnknownChars(str) == Cardinality({ i \in 1..Len(str) : FindChar(str[i]) = 0 })

\* update line 742
DrawsTextBox(gen) == gen.width > TEXT_W /\ gen.height > TEXT_H

text_x(gen) == (gen.width \div 2) - (TEXT_W \div 2)
text_y(gen) == (gen.height \div 2) - (TEXT_H \div 2)

Plane3(a, b, c) == [y |-> a, u |-> b, v |-> c]

NoWrites ==
  [clear |-> Plane3(0, 0, 0), bands |-> Plane3(0, 0, 0), bar |-> Plane3(0, 0, 0),
   box |-> Plane3(0, 0, 0), glyph |-> Plane3(0, 0, 0), packed |-> {}, rows |-> {},
   bandcols |-> {}, barchroma |-> {}, text |-> << >>, unknown |-> 0,
   barcolour |-> << >>]

\* update lines 661-711: plane reset, bands and bar; gen carries the advanced perc,
\* bar the window computed before the advance
DrawFrame(gen, bar) ==
  LET buv == Extent(bands_uv(gen))
      ruv == Extent(bar_uv(gen, bar))
  IN [NoWrites EXCEPT
        !.clear = Plane3(Extent(Memset(0, gen.ybytes)), Extent(Memset(0, gen.ubytes)),
                         Extent(Memset(0, gen.vbytes))),
        !.bands = Plane3(Extent(bands_y(gen)), buv, buv),
        !.bar   = Plane3(Extent(bar_y(gen, bar)), ruv, ruv),
        !.rows  = bar_rows(bar),
        !.bandcols = band_columns(gen),
        !.barchroma = bar_chroma(gen, bar),
        !.barcolour = BarColour(gen),
        !.packed = IF gen.pixel_size_in_bytes = 2
                     THEN UNION { fill_pairs(gen, "bands", gen.width \div 7, gen.height,
                                             colors[i]) : i \in 1..7 }
                            \cup bar_pairs(gen, bar)
                     ELSE {}]

\* update lines 740-757: the timestamp box and the mm:ss glyphs
DrawText(gen, w) ==
  IF DrawsTextBox(gen)
    THEN LET fuv == Extent(fill_uv(gen, text_x(gen), text_y(gen), TEXT_W, TEXT_H))
         IN [w EXCEPT
               !.box   = Plane3(Extent(fill_y(gen, text_x(gen), text_y(gen), TEXT_W, TEXT_H)),
                                fuv, fuv),
               !.glyph = Plane3(Extent(add_number_string(gen, TimeString(gen),
                                         (text_x(gen) + 20) * gen.pixel_size_in_bytes,
                                         text_y(gen) + 20)), 0, 0),
               !.text = TimeString(gen),
               !.unknown = UnknownChars(TimeString(gen))]
    ELSE w

\* update line 752 with 2-byte samples: the pairs stored for the box in colour col
DrawBoxPairs(gen, w, col) ==
  IF DrawsTextBox(gen) /\ gen.pixel_size_in_bytes = 2
    THEN [w EXCEPT !.packed = @ \cup fill_pairs(gen, "box", TEXT_W, TEXT_H,
                                                <<col.text_r, col.text_g, col.text_b>>)]
    ELSE w

-----------------------------------------------------------------------------
(* video_generator_init *)

\* init lines 488-497: the audio members
InitAudio(h, c) ==
  [h EXCEPT
     !.audio_bip_frequency = c.bip_frequency, !.audio_bop_frequency = c.bop_frequency,
     !.audio_bip_millis = AUDIO_MILLIS, !.audio_bop_millis = AUDIO_MILLIS,
     !.audio_nchannels = AUDIO_NCHANNELS, !.audio_samplerate = AUDIO_SAMPLERATE,
     !.audio_nsamples = AUDIO_NSAMPLES, !.audio_nseconds = AUDIO_NSECONDS,
     !.audio_nbytes = SIZEOF_INT16 * AUDIO_SAMPLERATE * AUDIO_NCHANNELS * AUDIO_NSECONDS,
     !.audio_callback = TRUE]

\* init lines 512 and 520: num_frames = (uint32_t)(millis / 1000.0) * samplerate; the
\* cast applies to the quotient alone
InitMarkerFrames(millis, samplerate) == (millis \div 1000) * samplerate

\* init lines 507-525: the ring is zeroed, then num_frames frames from second 1 and
\* from second 3 are written with the two tones; both counts use audio_bip_millis
RingTone(gen) ==
  LET n == InitMarkerFrames(gen.audio_bip_millis, gen.audio_samplerate)
      burst(m, lo) == IF n > 0 THEN {[marker |-> m, lo |-> lo, hi |-> lo + n]} ELSE {}
  IN burst("bip", gen.audio_samplerate) \cup burst("bop", gen.audio_samplerate * 3)

\* clear line 560: free(g->audio_buffer)
FreeRing(hp) == [hp EXCEPT !.rings = @ - 1, !.ring_tone = {}]

\* the tone thread before thread_alloc and after it has been joined
NoThread ==
  [pc |-> "none", dx |-> 0, must_stop |-> 0, is_bip |-> 0, is_bop |-> 0,
   prev_is_bip |-> 0, prev_is_bop |-> 0, nbytes |-> 0, bytes_total |-> 0,
   bip_start_dx |-> 0, bip_end_dx |-> 0, bop_start_dx |-> 0, bop_end_dx |-> 0,
   armed |-> FALSE, chunk_dx |-> 0, chunk_is_wrap |-> FALSE, cb_bytes |-> 0,
   tmp_buffer |-> FALSE, chunk_copies |-> << >>, chunk_args |-> <<0, 0>>,
   now |-> 0, timeout |-> 0, delay |-> 0, first_now |-> 0]

\* no API call has returned yet
NoCall == [op |-> "none", cause |-> "none"]

\* init line 435-437 when malloc returns NULL: y is NULL, u and v are NULL plus an offset
NullPlanes(gen) ==
  [gen EXCEPT !.y = NullPtr,
              !.u = [null |-> TRUE, off |-> gen.ybytes],
              !.v = [null |-> TRUE, off |-> gen.ybytes + gen.ubytes]]

\* init lines 405-546 on handle h with settings c; fail names what goes wrong in the
\* call: a NULL argument ("null_handle", "null_cfg") or the platform call that fails
\* ("plane_malloc", "audio_malloc", "mutex_init", "thread_alloc"), "none" otherwise.
\* cause is the first failure met in program order.
InitResult(h, c, fail, hp) ==
  LET planes_ok == fail # "plane_malloc"
      gv == IF planes_ok THEN InitVideo(h, c) ELSE NullPlanes(InitVideo(h, c))
      ga == InitAudio(gv, c)
      h0 == [hp EXCEPT !.inits = @ + 1]
      h1 == IF planes_ok THEN [h0 EXCEPT !.planes = @ + 1] ELSE h0
      first(x) == IF planes_ok THEN x ELSE "plane_malloc"
  IN IF fail = "null_handle"
       THEN [g |-> h, ret |-> 0 - 1, heap |-> h0, spawn |-> FALSE, cause |-> "null_handle"]
     ELSE IF fail = "null_cfg"
       THEN [g |-> h, ret |-> 0 - 2, heap |-> h0, spawn |-> FALSE, cause |-> "null_cfg"]
     ELSE IF ~c.audio_callback
       THEN [g |-> gv, ret |-> 0, heap |-> h1, spawn |-> FALSE, cause |-> first("none")]
     ELSE IF c.bip_frequency = 0
       THEN [g |-> gv, ret |-> 0 - 6, heap |-> h1, spawn |-> FALSE, cause |-> first("no_bip")]
     ELSE IF c.bop_frequency = 0
       THEN [g |-> gv, ret |-> 0 - 7, heap |-> h1, spawn |-> FALSE, cause |-> first("no_bop")]
     ELSE IF fail = "audio_malloc"
       THEN [g |-> ga, ret |-> 0 - 7, heap |-> h1, spawn |-> FALSE,
             cause |-> first("audio_malloc")]
     ELSE IF fail = "mutex_init"
       THEN [g |-> ga, ret |-> 0 - 8, heap |-> h1, spawn |-> FALSE,
             cause |-> first("mutex_init")]
     ELSE IF fail = "thread_alloc"
       THEN [g |-> ga, ret |-> 0 - 9, heap |-> [h1 EXCEPT !.mutexes = @ + 1],
             spawn |-> FALSE, cause |-> first("thread_alloc")]
     ELSE [g |-> [ga EXCEPT !.audio_buffer = TRUE, !.audio_thread = TRUE], ret |-> 0,
           heap |-> [h1 EXCEPT !.rings = @ + 1, !.mutexes = @ + 1, !.threads = @ + 1,
                               !.ring_tone = RingTone(ga)],
           spawn |-> TRUE, cause |-> first("none")]

\* video_generator_init(&cfg, &g), or with a NULL argument; the settings struct is the
\* caller's and keeps the defaults that init writes into it. A handle whose init
\* returned 0 with NULL planes is "unbacked".
CallInit(fail) ==
  /\ cpc = "idle"
  /\ life \notin {"inited", "unbacked"}
  /\ heap.inits < MaxInits
  /\ LET c == ApplyDefaults(cfg)
         r == InitResult(g, c, fail, heap)
         untouched == fail \in {"null_handle", "null_cfg"}
     IN /\ cfg' = IF untouched THEN cfg ELSE c
        /\ g' = r.g
        /\ ret' = r.ret
        /\ heap' = r.heap
        /\ life' = IF fail = "null_handle" THEN life
                   ELSE IF r.ret # 0 THEN "failed"
                   ELSE IF r.g.y.null THEN "unbacked" ELSE "inited"
        /\ t' = IF r.spawn THEN [NoThread EXCEPT !.pc = "start"] ELSE t
        /\ delivered' = IF r.spawn THEN 0 ELSE delivered
        /\ calls' = IF untouched THEN calls ELSE 0
        /\ wr' = IF untouched THEN wr ELSE NoWrites
        /\ last' = [op |-> "init", cause |-> r.cause]
        /\ stop_at' = IF r.spawn THEN 0 - 1 ELSE stop_at
  /\ UNCHANGED <<audio_thread_must_stop, audio_is_bip, audio_is_bop, audio_mutex, cpc, upd>>

-----------------------------------------------------------------------------
(* video_generator_update *)

NoUpdate == [is_bip |-> 0, is_bop |-> 0, text_r |-> 0, text_g |-> 0, text_b |-> 0]

\* mutant: marker A takes precedence over marker B
TextColour_BipWins(is_bip, is_bop) ==
  [is_bip |-> is_bip, is_bop |-> is_bop,
   text_r |-> IF is_bip = 1 THEN 0 ELSE IF is_bop = 1 THEN 255 ELSE 0,
   text_g |-> 0,
   text_b |-> IF is_bip = 1 THEN 255 ELSE 0]

\* update lines 723-732: the box colour from the copied flags
TextColour(is_bip, is_bop) ==
  [is_bip |-> is_bip, is_bop |-> is_bop,
   text_r |-> IF is_bop = 1 THEN 255 ELSE 0,
   text_g |-> 0,
   text_b |-> IF is_bop = 1 THEN 0 ELSE IF is_bip = 1 THEN 255 ELSE 0]

\* mutant: the counter is advanced twice
NextFrame_Twice(gen) == [gen EXCEPT !.frame = @ + 2]

\* update line 758
NextFrame(gen) == [gen EXCEPT !.frame = @ + 1]

\* an update call that has returned
UpdateReturned == [op |-> "update", cause |-> "none"]

\* mutant: the handle checks accept a zero width or height
UpdateCheck_Accepts(gen) == 0

\* update lines 626-627: the checks of the handle's width and height
UpdateCheck(gen) ==
  IF gen.width = 0 THEN 0 - 2 ELSE IF gen.height = 0 THEN 0 - 3 ELSE 0

\* update lines 603-760; with audio the call stops at mutex_lock (line 715). With
\* NULL planes the memset of line 661 ends the process.
CallUpdate ==
  /\ cpc = "idle"
  /\ calls < MaxFrames
  /\ IF g.width = 0 \/ g.height = 0
       THEN /\ ret' = UpdateCheck(g)
            /\ calls' = calls + 1
            /\ last' = UpdateReturned
            /\ UNCHANGED <<g, wr, cpc, upd>>
       ELSE LET bar == BarGeometry(g)
                g1  == [g EXCEPT !.percN = AdvancePerc(g)]
            IN IF BarOutOfBounds(g1, bar)
                 THEN /\ g' = g1
                      /\ ret' = 0 - 1
                      /\ calls' = calls + 1
                      /\ wr' = NoWrites
                      /\ last' = UpdateReturned
                      /\ UNCHANGED <<cpc, upd>>
               ELSE IF g1.y.null
                 THEN /\ g' = g1
                      /\ cpc' = "crashed"
                      /\ UNCHANGED <<ret, calls, wr, upd, last>>
               ELSE IF ~g1.audio_buffer
                 THEN /\ wr' = DrawBoxPairs(g1, DrawText(g1, DrawFrame(g1, bar)), NoUpdate)
                      /\ g' = NextFrame(g1)
                      /\ ret' = 0
                      /\ calls' = calls + 1
                      /\ upd' = NoUpdate
                      /\ last' = UpdateReturned
                      /\ UNCHANGED cpc
               ELSE /\ wr' = DrawFrame(g1, bar)
                    /\ g' = g1
                    /\ cpc' = "upd_lock"
                    /\ UNCHANGED <<ret, calls, upd, last>>
  /\ UNCHANGED <<cfg, audio_thread_must_stop, audio_is_bip, audio_is_bop, audio_mutex,
                 heap, life, t, delivered, stop_at>>

\* update line 625: video_generator_update(NULL)
CallUpdateNull ==
  /\ cpc = "idle"
  /\ ret' = 0 - 1
  /\ last' = [op |-> "update", cause |-> "null_handle"]
  /\ UNCHANGED <<cfg, g, audio_thread_must_stop, audio_is_bip, audio_is_bop, audio_mutex,
                 heap, cpc, life, calls, wr, upd, t, delivered, stop_at>>

\* mutant: a trylock whose result is ignored
UpdateLock_NoWait ==
  /\ cpc = "upd_lock"
  /\ audio_mutex' = IF audio_mutex = "free" THEN "caller" ELSE audio_mutex
  /\ cpc' = "upd_read"
  /\ UNCHANGED <<cfg, g, audio_thread_must_stop, audio_is_bip, audio_is_bop, heap, ret,
                 life, calls, wr, upd, t, delivered, last, stop_at>>

\* update line 715: mutex_lock
UpdateLock ==
  /\ cpc = "upd_lock"
  /\ audio_mutex = "free"
  /\ audio_mutex' = "caller"
  /\ cpc' = "upd_read"
  /\ UNCHANGED <<cfg, g, audio_thread_must_stop, audio_is_bip, audio_is_bop, heap, ret,
                 life, calls, wr, upd, t, delivered>>
  /\ UNCHANGED <<last, stop_at>>

\* update lines 717-759: copy the flags, unlock, draw the box and the text
UpdateFinish ==
  /\ cpc = "upd_read"
  /\ audio_mutex' = "free"
  /\ upd' = TextColour(audio_is_bip, audio_is_bop)
  /\ wr' = DrawBoxPairs(g, DrawText(g, wr), TextColour(audio_is_bip, audio_is_bop))
  /\ g' = NextFrame(g)
  /\ ret' = 0
  /\ calls' = calls + 1
  /\ cpc' = "idle"
  /\ last' = UpdateReturned
  /\ UNCHANGED <<cfg, audio_thread_must_stop, audio_is_bip, audio_is_bop, heap, life,
                 t, delivered, stop_at>>

-----------------------------------------------------------------------------
(* video_generator_clear *)

\* clear lines 573-597: v is not reset (u is set twice); the three shared flags,
\* audio_nsamples and the pixel layout members are not reset either
ClearFields(gen) ==
  [gen EXCEPT
     !.y = NullPtr, !.u = NullPtr,
     !.width = 0, !.height = 0, !.frame = 0, !.step_den = 0, !.percN = 0,
     !.ybytes = 0, !.ubytes = 0, !.vbytes = 0, !.nbytes = 0,
     !.u_factor = 0, !.v_factor = 0,
     !.audio_nchannels = 0, !.audio_nseconds = 0, !.audio_samplerate = 0,
     !.audio_bip_frequency = 0, !.audio_bop_frequency = 0,
     !.audio_bip_millis = 0, !.audio_bop_millis = 0,
     !.audio_nbytes = 0, !.audio_callback = FALSE]

\* mutant: no width/height check and an unconditional free of the plane buffer
ClearRest_NoGuards(gen, hp) ==
  [g |-> ClearFields(gen), ret |-> 0, heap |-> [hp EXCEPT !.planes = @ - 1]]

\* clear lines 565-599 on handle gen
ClearRest(gen, hp) ==
  IF gen.width = 0 THEN [g |-> gen, ret |-> 0 - 2, heap |-> hp]
  ELSE IF gen.height = 0 THEN [g |-> gen, ret |-> 0 - 3, heap |-> hp]
  ELSE [g |-> ClearFields(gen), ret |-> 0,
        heap |-> IF gen.y.null THEN hp ELSE [hp EXCEPT !.planes = @ - 1]]

\* a clear call that has returned
ClearReturned == [op |-> "clear", cause |-> "none"]

\* clear lines 548-551 (and all of it when no thread handle is set)
CallClear ==
  /\ cpc = "idle"
  /\ IF g.audio_thread
       THEN /\ cpc' = "clr_lock"
            /\ UNCHANGED <<g, ret, heap, life, calls, wr, last>>
       ELSE LET r == ClearRest(g, heap)
            IN /\ last' = ClearReturned
               /\ g' = r.g
               /\ ret' = r.ret
               /\ heap' = r.heap
               /\ life' = IF r.ret = 0 THEN "cleared" ELSE life
               /\ calls' = IF r.ret = 0 THEN 0 ELSE calls
               /\ wr' = IF r.ret = 0 THEN NoWrites ELSE wr
               /\ UNCHANGED cpc
  /\ UNCHANGED <<cfg, audio_thread_must_stop, audio_is_bip, audio_is_bop, audio_mutex,
                 upd, t, delivered, stop_at>>

\* clear line 552: mutex_lock
ClearLock ==
  /\ cpc = "clr_lock"
  /\ audio_mutex = "free"
  /\ audio_mutex' = "caller"
  /\ cpc' = "clr_set"
  /\ UNCHANGED <<cfg, g, audio_thread_must_stop, audio_is_bip, audio_is_bop, heap, ret,
                 life, calls, wr, upd, t, delivered>>
  /\ UNCHANGED <<last, stop_at>>

\* mutant: the stop request is set but the mutex is not unlocked
ClearSetStop_NoUnlock ==
  /\ cpc = "clr_set"
  /\ audio_thread_must_stop' = 1
  /\ cpc' = "clr_join"
  /\ stop_at' = delivered
  /\ UNCHANGED <<cfg, g, audio_is_bip, audio_is_bop, audio_mutex, heap, ret, life, calls,
                 wr, upd, t, delivered>>
  /\ UNCHANGED last

\* mutant: the ring is freed when the stop is requested, before the join
ClearSetStop_FreesRing ==
  /\ cpc = "clr_set"
  /\ audio_thread_must_stop' = 1
  /\ audio_mutex' = "free"
  /\ cpc' = "clr_join"
  /\ stop_at' = delivered
  /\ heap' = IF g.audio_buffer THEN FreeRing(heap) ELSE heap
  /\ g' = [g EXCEPT !.audio_buffer = FALSE]
  /\ UNCHANGED <<cfg, audio_is_bip, audio_is_bop, ret, life, calls, wr, upd, t, delivered,
                 last>>

\* clear lines 553-554: request the stop, mutex_unlock
ClearSetStop ==
  /\ cpc = "clr_set"
  /\ audio_thread_must_stop' = 1
  /\ audio_mutex' = "free"
  /\ cpc' = "clr_join"
  /\ stop_at' = delivered
  /\ UNCHANGED <<cfg, g, audio_is_bip, audio_is_bop, heap, ret, life, calls, wr, upd, t,
                 delivered>>
  /\ UNCHANGED last

\* clear lines 555-562: the thread handle is dropped without thread_free, the ring is freed
AfterJoin(gen) == [gen EXCEPT !.audio_thread = FALSE, !.audio_buffer = FALSE]

\* mutant: clear returns without joining the thread, which keeps running
ClearJoin_NoJoin ==
  /\ cpc = "clr_join"
  /\ LET r == ClearRest(AfterJoin(g),
                        IF g.audio_buffer THEN FreeRing(heap) ELSE heap)
     IN /\ g' = r.g
        /\ ret' = r.ret
        /\ heap' = r.heap
        /\ life' = IF r.ret = 0 THEN "cleared" ELSE life
        /\ calls' = IF r.ret = 0 THEN 0 ELSE calls
        /\ wr' = IF r.ret = 0 THEN NoWrites ELSE wr
  /\ cpc' = "idle"
  /\ last' = ClearReturned
  /\ UNCHANGED <<cfg, audio_thread_must_stop, audio_is_bip, audio_is_bop, audio_mutex,
                 upd, t, delivered, stop_at>>

\* clear lines 555-599: thread_join returns once the thread function has returned
ClearJoin ==
  /\ cpc = "clr_join"
  /\ t.pc = "done"
  /\ LET r == ClearRest(AfterJoin(g),
                        IF g.audio_buffer THEN FreeRing(heap) ELSE heap)
     IN /\ g' = r.g
        /\ ret' = r.ret
        /\ heap' = r.heap
        /\ life' = IF r.ret = 0 THEN "cleared" ELSE life
        /\ calls' = IF r.ret = 0 THEN 0 ELSE calls
        /\ wr' = IF r.ret = 0 THEN NoWrites ELSE wr
  /\ t' = NoThread
  /\ cpc' = "idle"
  /\ last' = ClearReturned
  /\ UNCHANGED <<cfg, audio_thread_must_stop, audio_is_bip, audio_is_bop, audio_mutex,
                 upd, delivered, stop_at>>

-----------------------------------------------------------------------------
(* audio_thread *)

\* (uint16_t)(millis / 1000.0) * samplerate, stored in a uint16_t: the cast applies to
\* the quotient alone
NumMarkerFrames(millis, samplerate) ==
  (((millis \div 1000) % 65536) * samplerate) % 65536

\* audio_thread line 900: (uint64_t)(nsamples * (1.0 / samplerate) * 1e9) nanoseconds,
\* the quotient nsamples * 10^9 / samplerate taken in two steps of 32-bit size
ChunkDelay(nsamples, samplerate) ==
  LET micros == nsamples * 1000000
  IN (micros \div samplerate) * 1000 + ((micros % samplerate) * 1000) \div samplerate

\* mutant: marker B placed at the 1-second mark, like marker A
ThreadLocals_SameMark(gen) ==
  LET bytes_total   == gen.audio_nbytes
      num_bip_bytes == SIZEOF_INT16 * gen.audio_nchannels
                         * NumMarkerFrames(gen.audio_bip_millis, gen.audio_samplerate)
      bip_start_dx  == bytes_total \div gen.audio_nseconds
  IN [NoThread EXCEPT
        !.delay = ChunkDelay(gen.audio_nsamples, gen.audio_samplerate),
        !.nbytes = gen.audio_nsamples * SIZEOF_INT16 * gen.audio_nchannels,
        !.bytes_total = bytes_total,
        !.bip_start_dx = bip_start_dx, !.bip_end_dx = bip_start_dx + num_bip_bytes,
        !.bop_start_dx = bip_start_dx, !.bop_end_dx = bip_start_dx + num_bip_bytes]

\* audio_thread lines 897-915: the locals computed before the loop
ThreadLocals(gen) ==
  LET bytes_total   == gen.audio_nbytes
      num_bip_bytes == SIZEOF_INT16 * gen.audio_nchannels
                         * NumMarkerFrames(gen.audio_bip_millis, gen.audio_samplerate)
      num_bop_bytes == SIZEOF_INT16 * gen.audio_nchannels
                         * NumMarkerFrames(gen.audio_bop_millis, gen.audio_samplerate)
      bip_start_dx  == bytes_total \div gen.audio_nseconds
      bop_start_dx  == (bytes_total \div gen.audio_nseconds) * 3
  IN [NoThread EXCEPT
        !.delay = ChunkDelay(gen.audio_nsamples, gen.audio_samplerate),
        !.nbytes = gen.audio_nsamples * SIZEOF_INT16 * gen.audio_nchannels,
        !.bytes_total = bytes_total,
        !.bip_start_dx = bip_start_dx, !.bip_end_dx = bip_start_dx + num_bip_bytes,
        !.bop_start_dx = bop_start_dx, !.bop_end_dx = bop_start_dx + num_bop_bytes]

\* audio_thread lines 887-915; malloc (line 902) returns a buffer or NULL, and the
\* result is not examined
T_Start(Scratch) ==
  /\ t.pc = "start"
  /\ \E ok \in Scratch : t' = [ThreadLocals(g) EXCEPT !.pc = "lock", !.tmp_buffer = ok]
  /\ UNCHANGED <<cfg, g, audio_thread_must_stop, audio_is_bip, audio_is_bop, audio_mutex,
                 heap, cpc, ret, life, calls, wr, upd, delivered>>
  /\ UNCHANGED <<last, stop_at>>

\* audio_thread line 919: mutex_lock
T_Lock ==
  /\ t.pc = "lock"
  /\ audio_mutex = "free"
  /\ audio_mutex' = "tone"
  /\ t' = [t EXCEPT !.pc = "read"]
  /\ UNCHANGED <<cfg, g, audio_thread_must_stop, audio_is_bip, audio_is_bop, heap, cpc,
                 ret, life, calls, wr, upd, delivered>>
  /\ UNCHANGED <<last, stop_at>>

\* mutant: the stop request is copied but the mutex is not unlocked
T_ReadStop_KeepsLock ==
  /\ t.pc = "read"
  /\ t' = [t EXCEPT !.must_stop = audio_thread_must_stop,
                    !.pc = IF audio_thread_must_stop = 1 THEN "exit" ELSE "poll"]
  /\ UNCHANGED <<cfg, g, audio_thread_must_stop, audio_is_bip, audio_is_bop, audio_mutex,
                 heap, cpc, ret, life, calls, wr, upd, delivered, last, stop_at>>

\* mutant: the stop request is copied but the loop is not left
T_ReadStop_IgnoresStop ==
  /\ t.pc = "read"
  /\ audio_mutex' = "free"
  /\ t' = [t EXCEPT !.must_stop = audio_thread_must_stop, !.pc = "poll"]
  /\ UNCHANGED <<cfg, g, audio_thread_must_stop, audio_is_bip, audio_is_bop, heap, cpc,
                 ret, life, calls, wr, upd, delivered, last, stop_at>>

\* audio_thread lines 920-925: copy the stop request, mutex_unlock, leave the loop on 1
T_ReadStop ==
  /\ t.pc = "read"
  /\ audio_mutex' = "free"
  /\ t' = [t EXCEPT !.must_stop = audio_thread_must_stop,
                    !.pc = IF audio_thread_must_stop = 1 THEN "exit" ELSE "poll"]
  /\ UNCHANGED <<cfg, g, audio_thread_must_stop, audio_is_bip, audio_is_bop, heap, cpc,
                 ret, life, calls, wr, upd, delivered>>
  /\ UNCHANGED <<last, stop_at>>

\* audio_thread lines 927-928: now = ns(); if (now > timeout). The first poll is due
\* (timeout is 0); later ones are due once the clock has passed the timeout.
T_Poll(cap) ==
  /\ t.pc = "poll"
  /\ \E due \in BOOLEAN :
       /\ ~t.armed => due
       /\ due => delivered < cap
       /\ t' = [t EXCEPT !.pc = IF due THEN "deliver" ELSE "lock"]
  /\ UNCHANGED <<cfg, g, audio_thread_must_stop, audio_is_bip, audio_is_bop, audio_mutex,
                 heap, cpc, ret, life, calls, wr, upd, delivered>>
  /\ UNCHANGED <<last, stop_at>>

\* audio_thread lines 927-928 with the clock: the monotonic clock has moved on by
\* adv nanoseconds since the last reading and is positive when read first
T_PollClock(cap, Steps) ==
  /\ t.pc = "poll"
  /\ \E adv \in Steps :
       LET now == t.now + adv
       IN /\ now > 0
          /\ now <= MaxClockPeriods * t.delay
          /\ now > t.timeout => delivered < cap
          /\ t' = [t EXCEPT !.now = now,
                            !.pc = IF now > t.timeout THEN "deliver" ELSE "lock"]
  /\ UNCHANGED <<cfg, g, audio_thread_must_stop, audio_is_bip, audio_is_bop, audio_mutex,
                 heap, cpc, ret, life, calls, wr, upd, delivered, last, stop_at>>

InWindow(dx, lo, hi) == IF dx >= lo /\ dx <= hi THEN 1 ELSE 0

\* audio_thread lines 934-938: an offset at the ring end restarts at 0
ReadOffset(dx, bytes_total) == IF bytes_total - dx = 0 THEN 0 ELSE dx

\* mutant: a chunk split over the ring end restarts the offset at 0
NextOffset_RestartAtZero(dx0, bytes_total, bytes_needed) ==
  IF bytes_total - dx0 < bytes_needed THEN 0 ELSE dx0 + bytes_needed

\* mutant: no wrap at the ring end
NextOffset_NoWrap(dx0, bytes_total, bytes_needed) == dx0 + bytes_needed

\* audio_thread lines 940-956: the offset after the chunk read at dx0
NextOffset(dx0, bytes_total, bytes_needed) ==
  IF bytes_total - dx0 < bytes_needed
    THEN bytes_needed - (bytes_total - dx0)
    ELSE dx0 + bytes_needed

\* audio_thread lines 940-954: where the bytes the callback is handed come from, as
\* runs of n bytes at offset to of the chunk taken from offset from of the ring. A
\* whole chunk is handed over in place; a chunk split over the ring end is copied
\* into the scratch buffer by the two memcpy calls of lines 943 and 947
ChunkCopies(dx0, bytes_total, bytes_needed) ==
  LET bytes_to_end == bytes_total - dx0
  IN IF bytes_to_end < bytes_needed
       THEN << [to |-> 0, from |-> dx0, n |-> bytes_to_end - 1],
               [to |-> bytes_to_end, from |-> 0, n |-> bytes_needed - bytes_to_end] >>
       ELSE << [to |-> 0, from |-> dx0, n |-> bytes_needed] >>

\* audio_thread lines 930-956: marker membership, one chunk to the callback. The
\* memcpy into a NULL scratch buffer ends the process.
T_Deliver ==
  /\ t.pc = "deliver"
  /\ LET dx0 == ReadOffset(t.dx, t.bytes_total)
     IN IF t.bytes_total - dx0 < t.nbytes /\ ~t.tmp_buffer
          THEN /\ cpc' = "crashed"
               /\ UNCHANGED <<t, delivered>>
          ELSE /\ t' = [t EXCEPT
                         !.is_bip = InWindow(t.dx, t.bip_start_dx, t.bip_end_dx),
                         !.is_bop = InWindow(t.dx, t.bop_start_dx, t.bop_end_dx),
                         !.chunk_dx = dx0,
                         !.chunk_is_wrap = (t.bytes_total - dx0 < t.nbytes),
                         !.chunk_copies = ChunkCopies(dx0, t.bytes_total, t.nbytes),
                         !.chunk_args = <<t.nbytes, g.audio_nsamples>>,
                         !.cb_bytes = @ + t.nbytes,
                         !.dx = NextOffset(dx0, t.bytes_total, t.nbytes),
                         !.first_now = IF delivered = 0 THEN t.now ELSE @,
                         !.pc = "bip"]
               /\ delivered' = delivered + 1
               /\ UNCHANGED cpc
  /\ UNCHANGED <<cfg, g, audio_thread_must_stop, audio_is_bip, audio_is_bop, audio_mutex,
                 heap, ret, life, calls, wr, upd>>
  /\ UNCHANGED <<last, stop_at>>

\* audio_thread lines 959-963: publish is_bip under the mutex when it changed
T_PublishBip ==
  /\ t.pc = "bip"
  /\ IF t.is_bip # t.prev_is_bip
       THEN audio_mutex = "free" /\ audio_is_bip' = t.is_bip
       ELSE UNCHANGED audio_is_bip
  /\ t' = [t EXCEPT !.pc = "bop"]
  /\ UNCHANGED <<cfg, g, audio_thread_must_stop, audio_is_bop, audio_mutex, heap, cpc,
                 ret, life, calls, wr, upd, delivered>>
  /\ UNCHANGED <<last, stop_at>>

\* audio_thread lines 964-972: publish is_bop likewise, then set the next timeout
\* and remember the memberships
T_PublishBop ==
  /\ t.pc = "bop"
  /\ IF t.is_bop # t.prev_is_bop
       THEN audio_mutex = "free" /\ audio_is_bop' = t.is_bop
       ELSE UNCHANGED audio_is_bop
  /\ t' = [t EXCEPT !.armed = TRUE, !.timeout = t.now + t.delay,
                    !.prev_is_bip = t.is_bip, !.prev_is_bop = t.is_bop, !.pc = "lock"]
  /\ UNCHANGED <<cfg, g, audio_thread_must_stop, audio_is_bip, audio_mutex, heap, cpc,
                 ret, life, calls, wr, upd, delivered>>
  /\ UNCHANGED <<last, stop_at>>

\* audio_thread lines 976-979: free the scratch buffer and return
T_Exit ==
  /\ t.pc = "exit"
  /\ t' = [t EXCEPT !.pc = "done"]
  /\ UNCHANGED <<cfg, g, audio_thread_must_stop, audio_is_bip, audio_is_bop, audio_mutex,
                 heap, cpc, ret, life, calls, wr, upd, delivered>>
  /\ UNCHANGED <<last, stop_at>>

\* the thread runs as long as the process does
AudioThread(cap, Scratch) ==
  /\ cpc # "crashed"
  /\ \/ T_Start(Scratch)
     \/ T_Lock
     \/ T_ReadStop
     \/ T_Poll(cap)
     \/ T_Deliver
     \/ T_PublishBip
     \/ T_PublishBop
     \/ T_Exit

\* the thread with the clock it polls
ClockThread(cap, Steps) ==
  /\ cpc # "crashed"
  /\ \/ T_Start({TRUE})
     \/ T_Lock
     \/ T_ReadStop
     \/ T_PollClock(cap, Steps)
     \/ T_Deliver
     \/ T_PublishBip
     \/ T_PublishBop
     \/ T_Exit

-----------------------------------------------------------------------------
(* Specifications *)

\* nothing is allocated; ring_tone is the set of frame ranges [lo, hi) of the ring
\* that hold tone samples, the rest of an allocated ring holding silence
ZeroHeap ==
  [planes |-> 0, rings |-> 0, threads |-> 0, mutexes |-> 0, inits |-> 0, ring_tone |-> {}]

NoAudio(w, h, fps, format, bitdepth, byte_order) ==
  [width |-> w, height |-> h, fps |-> fps, format |-> format, bitdepth |-> bitdepth,
   byte_order |-> byte_order, audio_callback |-> FALSE, bip_frequency |-> 0,
   bop_frequency |-> 0]

\* the example's settings (videogen.c lines 129-133, at 30 frames per second)
ScenarioConfig == NoAudio(720, 480, 30, 420, 8, 0)

VideoConfigs ==
  { NoAudio(d[1], d[2], fps, f, b, o) :
      d \in Dims, fps \in FpsSet, f \in Formats, b \in BitDepths, o \in ByteOrders }
    \cup {ScenarioConfig}

\* the caller has filled in its settings (one of Configs); the handle is zero
InitWith(Configs) ==
  /\ cfg \in Configs
  /\ g = ZeroHandle
  /\ audio_thread_must_stop = 0
  /\ audio_is_bip = 0
  /\ audio_is_bop = 0
  /\ audio_mutex = "free"
  /\ heap = ZeroHeap
  /\ cpc = "idle"
  /\ ret = 0
  /\ life = "fresh"
  /\ calls = 0
  /\ wr = NoWrites
  /\ upd = NoUpdate
  /\ t = NoThread
  /\ delivered = 0
  /\ last = NoCall
  /\ stop_at = 0 - 1

\* the compositor alone: init without audio, update, clear
NextVideo ==
  \/ CallInit("none")
  \/ CallUpdate
  \/ CallClear

InitVideoOnly == InitWith(VideoConfigs)

SpecVideo == InitVideoOnly /\ [][NextVideo]_vars

WithAudio(w, h, fps, format, bitdepth, byte_order, bip, bop) ==
  [width |-> w, height |-> h, fps |-> fps, format |-> format, bitdepth |-> bitdepth,
   byte_order |-> byte_order, audio_callback |-> TRUE, bip_frequency |-> bip,
   bop_frequency |-> bop]

\* the audio example's tone settings (avgen.c lines 51-53)
ToneConfig == WithAudio(8, 10, 1, 420, 8, 0, 500, 1500)

AudioConfigs ==
  { WithAudio(8, 10, 1, 420, 8, 0, bip, bop) : bip \in {0, 500}, bop \in {0, 1500} }
    \cup {WithAudio(172, 102, 1, 420, 10, 1, 500, 1500)}

LifeConfigs ==
  AudioConfigs \cup {NoAudio(8, 10, fps, 420, 8, 0) : fps \in FpsSet}

InitFailures ==
  {"none", "null_handle", "null_cfg", "plane_malloc", "audio_malloc", "mutex_init",
   "thread_alloc"}

Caller ==
  \/ \E fail \in InitFailures : CallInit(fail)
  \/ CallUpdate
  \/ CallUpdateNull
  \/ UpdateLock
  \/ UpdateFinish
  \/ CallClear
  \/ ClearLock
  \/ ClearSetStop
  \/ ClearJoin

\* the whole life cycle, the caller's calls interleaved with the tone thread
Init == InitWith(LifeConfigs)

Next == Caller \/ AudioThread(MaxDeliveries, BOOLEAN)

Spec == Init /\ [][Next]_vars

\* scheduling: the tone thread keeps running, a clear that has been called keeps
\* running, and mutex_lock succeeds when the mutex is free again and again; the
\* caller is not obliged to call anything
FairSpec ==
  /\ Spec
  /\ WF_vars(AudioThread(MaxDeliveries, BOOLEAN))
  /\ SF_vars(ClearLock)
  /\ WF_vars(ClearSetStop)
  /\ WF_vars(ClearJoin)

\* the tone thread over a full cycle of ring offsets; the caller inits and may clear
InitTone == InitWith({ToneConfig})

NextTone ==
  \/ CallInit("none")
  \/ CallClear
  \/ ClearLock
  \/ ClearSetStop
  \/ ClearJoin
  \/ AudioThread(MaxPassDeliveries, BOOLEAN)

SpecTone == InitTone /\ [][NextTone]_vars

\* the pixel layout over format codes and bit depths init has no case for, and 0
LayoutFormats == {0, 1, 400, 411, 420, 422, 440, 444, 4444}
LayoutBitDepths == {0, 1, 8, 9, 10, 12, 14, 16, 255}

LayoutConfigs ==
  { NoAudio(d[1], d[2], 1, f, b, 0) :
      d \in {<<5, 10>>, <<8, 10>>}, f \in LayoutFormats, b \in LayoutBitDepths }

InitLayout == InitWith(LayoutConfigs)

NextLayout ==
  \/ CallInit("none")
  \/ CallClear

SpecLayout == InitLayout /\ [][NextLayout]_vars

\* the timestamp box over frame sizes on either side of 170x100, with and without
\* audio. init does not write the three shared flags (lines 405-546), so they hold
\* what the handle's memory held before the call
BoxDims == {<<170, 102>>, <<172, 100>>, <<171, 101>>, <<172, 102>>}

BoxConfigs ==
  { NoAudio(d[1], d[2], 1, 420, b, 0) : d \in BoxDims, b \in {8, 10} }
    \cup { WithAudio(d[1], d[2], 1, 420, b, 0, 500, 1500) : d \in BoxDims, b \in {8, 10} }

InitBox ==
  /\ cfg \in BoxConfigs
  /\ g = ZeroHandle
  /\ audio_thread_must_stop \in {0, 1}
  /\ audio_is_bip \in {0, 1}
  /\ audio_is_bop \in {0, 1}
  /\ audio_mutex = "free"
  /\ heap = ZeroHeap
  /\ cpc = "idle"
  /\ ret = 0
  /\ life = "fresh"
  /\ calls = 0
  /\ wr = NoWrites
  /\ upd = NoUpdate
  /\ t = NoThread
  /\ delivered = 0
  /\ last = NoCall
  /\ stop_at = 0 - 1

NextBox ==
  \/ CallInit("none")
  \/ CallUpdate
  \/ UpdateLock
  \/ UpdateFinish
  \/ AudioThread(MaxDeliveries, {TRUE})

SpecBox == InitBox /\ [][NextBox]_vars

\* the tone thread with its clock: between two readings the clock stands still,
\* moves on by half a chunk period, or by a nanosecond more than a chunk period
ClockSteps ==
  LET delay == ChunkDelay(AUDIO_NSAMPLES, AUDIO_SAMPLERATE)
  IN {0, delay \div 2, delay + 1}

InitClock == InitWith({ToneConfig})

NextClock ==
  \/ CallInit("none")
  \/ CallClear
  \/ ClearLock
  \/ ClearSetStop
  \/ ClearJoin
  \/ ClockThread(MaxDeliveries, ClockSteps)

SpecClock == InitClock /\ [][NextClock]_vars

\* the timestamp text after many updates: the handle as init and N updates leave it,
\* for frame counts N on either side of a change of the minute and of the hour
TextBaseFrames == {0, 55, 115, 3595, 7195}

TextConfigs ==
  { NoAudio(d[1], d[2], fps, 420, 8, 0) : d \in {<<8, 10>>, <<172, 102>>}, fps \in FpsSet }

InitText ==
  /\ cfg \in TextConfigs
  /\ \E n \in TextBaseFrames :
       g = [InitVideo(ZeroHandle, cfg) EXCEPT !.frame = n, !.percN = n % (5 * cfg.fps)]
  /\ audio_thread_must_stop = 0
  /\ audio_is_bip = 0
  /\ audio_is_bop = 0
  /\ audio_mutex = "free"
  /\ heap = [ZeroHeap EXCEPT !.planes = 1, !.inits = 1]
  /\ cpc = "idle"
  /\ ret = 0
  /\ life = "inited"
  /\ calls = 0
  /\ wr = NoWrites
  /\ upd = NoUpdate
  /\ t = NoThread
  /\ delivered = 0
  /\ last = [op |-> "init", cause |-> "none"]
  /\ stop_at = 0 - 1

NextText ==
  \/ CallUpdate
  \/ CallClear

SpecText == InitText /\ [][NextText]_vars

-----------------------------------------------------------------------------
(* Properties of the plane layout and of the compositor *)

\* the layout table of the specification, written out per format and bit depth
BytesPerSample(bitdepth) == IF bitdepth = 8 THEN 1 ELSE 2
ChromaWidth(format, w) ==
  CASE format = 400 -> 0 [] format = 420 -> w \div 2 [] format = 422 -> w \div 2
    [] format = 444 -> w
ChromaHeight(format, h) ==
  CASE format = 400 -> 0 [] format = 420 -> h \div 2 [] format = 422 -> h
    [] format = 444 -> h
ValidConfig(c) ==
  /\ c.width > 0 /\ c.height > 0
  /\ c.format \in {400, 420, 422, 444}
  /\ c.bitdepth \in {8, 10, 12}

\* C1: after a successful init of a valid configuration, ybytes is
\* width*height*bytesPerSample, ubytes = vbytes is
\* floor(width*uFactor)*floor(height*vFactor)*bytesPerSample, nbytes is their sum,
\* and the U and V planes start at offsets ybytes and ybytes+ubytes of the one
\* allocation.
C1_PlaneLayout ==
  (life = "inited" /\ ValidConfig(cfg)) =>
    LET bps == BytesPerSample(cfg.bitdepth)
        cb  == ChromaWidth(cfg.format, cfg.width) * ChromaHeight(cfg.format, cfg.height) * bps
    IN /\ g.ybytes = cfg.width * cfg.height * bps
       /\ g.ubytes = cb
       /\ g.vbytes = cb
       /\ g.nbytes = g.ybytes + g.ubytes + g.vbytes
       /\ ~g.y.null /\ g.y.off = 0
       /\ ~g.u.null /\ g.u.off = g.ybytes
       /\ ~g.v.null /\ g.v.off = g.ybytes + g.ubytes

\* the 720x480, 4:2:0, 8-bit scenario after init
C1_Witness ==
  /\ life = "inited"
  /\ cfg = ScenarioConfig
  /\ g.ybytes = 345600 /\ g.ubytes = 86400 /\ g.vbytes = 86400 /\ g.nbytes = 518400
  /\ g.u.off = 345600 /\ g.v.off = 432000

\* every byte range a draw step of the last update wrote lies inside its plane
StepInBounds(w) == w.y <= g.ybytes /\ w.u <= g.ubytes /\ w.v <= g.vbytes

\* C9: every byte written by update lies inside the plane being drawn, for the
\* plane clear, the band fill, the sweep bar, the timestamp box fill and the glyph
\* copy.
C9_WritesInBounds ==
  life = "inited" =>
    /\ StepInBounds(wr.clear)
    /\ StepInBounds(wr.bands)
    /\ StepInBounds(wr.bar)
    /\ StepInBounds(wr.box)
    /\ StepInBounds(wr.glyph)

\* C10: with format 400, ubytes = vbytes = 0 after init and update writes no byte
\* into the U or V plane; every write lies inside [0, ybytes).
C10_GreyHasNoChroma ==
  (life = "inited" /\ cfg.format = 400) =>
    /\ g.ubytes = 0 /\ g.vbytes = 0
    /\ \A w \in {wr.clear, wr.bands, wr.bar, wr.box, wr.glyph} :
         w.u = 0 /\ w.v = 0 /\ w.y <= g.ybytes

\* a 4:0:0 frame with bands, bar, box and glyphs drawn
C10_Witness ==
  /\ life = "inited" /\ cfg.format = 400 /\ calls > 0
  /\ wr.bands.y > 0 /\ wr.bar.y > 0 /\ wr.box.y > 0 /\ wr.glyph.y > 0

-----------------------------------------------------------------------------
(* Properties of the frame counter and the sweep phase *)

\* C2: the frame counter is 0 after init, each update adds exactly 1, it equals N
\* after N update calls, and it never decreases between init and clear.
C2_FrameCounter ==
  /\ [](life = "inited" => g.frame = calls)
  /\ [][(life # "inited" /\ life' = "inited") => g'.frame = 0]_vars
  /\ [][(life = "inited" /\ life' = "inited") =>
          /\ g'.frame >= g.frame
          /\ (calls' = calls + 1) => (g'.frame = g.frame + 1 /\ ret' = 0)]_vars

\* three updates done on a generator with audio
C2_Witness ==
  life = "inited" /\ cfg.audio_callback /\ cpc = "idle" /\ calls = 3 /\ g.frame = 3

\* C3: perc stays in [0,1), advances by step = 1/(5*fps) per update, and after
\* 5*fps updates since init is within one step of its value at call 0 (perc as an
\* exact multiple of step).
C3_SweepPhase ==
  life = "inited" =>
    /\ g.step_den = 5 * cfg.fps
    /\ 0 <= g.percN /\ g.percN < g.step_den
    /\ cpc = "idle" => g.percN = calls % g.step_den
    /\ (cpc = "idle" /\ calls = 5 * cfg.fps) => g.percN <= 1

\* a full sweep of 10 updates at 2 frames per second
C3_Witness ==
  life = "inited" /\ cpc = "idle" /\ cfg.fps = 2 /\ calls = 10 /\ g.percN = 0

-----------------------------------------------------------------------------
(* Properties of the tone thread *)

ThreadInLoop == t.pc \notin {"none", "start"}

\* C4: the ring read offset is strictly less than totalRingBytes in every state of
\* the tone thread, including when a chunk ends exactly at the ring end.
C4_OffsetBelowRingEnd == ThreadInLoop => t.dx < t.bytes_total

\* C4 as amended: the offset never exceeds totalRingBytes, it equals totalRingBytes
\* only after a chunk that ended exactly at the ring end, and every chunk is read
\* at an offset strictly below totalRingBytes.
C4_OffsetWithinRing ==
  ThreadInLoop =>
    /\ 0 <= t.dx /\ t.dx <= t.bytes_total
    /\ t.dx = t.bytes_total => (delivered > 0 /\ t.chunk_dx + t.nbytes = t.bytes_total)
    /\ delivered > 0 => (0 <= t.chunk_dx /\ t.chunk_dx < t.bytes_total)

\* the offset rests at the ring end after a chunk that ended there
C4_Witness == ThreadInLoop /\ delivered > 0 /\ t.dx = t.bytes_total

\* a whole number of rings has been delivered and the offset rests at the ring end
C5_Witness ==
  /\ ThreadInLoop /\ delivered > 0
  /\ t.cb_bytes % t.bytes_total = 0 /\ t.dx = t.bytes_total

\* C5: whenever the bytes delivered since the thread started are an exact multiple
\* of totalRingBytes, the ring read offset equals its value at start (0).
C5_OffsetBackAtStart ==
  (ThreadInLoop /\ t.cb_bytes % t.bytes_total = 0) => t.dx = 0

\* C5 as amended: ... the ring read offset equals its value at start modulo
\* totalRingBytes (0, or totalRingBytes until the next delivery resets it).
C5_OffsetBackAtStartModRing ==
  (ThreadInLoop /\ t.cb_bytes % t.bytes_total = 0) => t.dx % t.bytes_total = 0

\* the marker windows as the specification states them
SpecBurstBytes ==
  (SIZEOF_INT16 * AUDIO_NCHANNELS * AUDIO_MILLIS * AUDIO_SAMPLERATE) \div 1000
SpecOffsetA == (SIZEOF_INT16 * AUDIO_SAMPLERATE * AUDIO_NCHANNELS * AUDIO_NSECONDS)
                 \div AUDIO_NSECONDS
SpecOffsetB == 3 * SpecOffsetA

\* C6: after each iteration that delivered a chunk, the shared markerA flag is true
\* iff the offset at which the chunk started lies in [offsetA, offsetA+burstBytes]
\* (burstBytes = 17640), and markerB likewise with offsetB.
C6_MarkerFlagsFollowWindows ==
  (t.pc = "lock" /\ t.armed) =>
    /\ (audio_is_bip = 1) <=>
         (t.chunk_dx >= SpecOffsetA /\ t.chunk_dx <= SpecOffsetA + SpecBurstBytes)
    /\ (audio_is_bop = 1) <=>
         (t.chunk_dx >= SpecOffsetB /\ t.chunk_dx <= SpecOffsetB + SpecBurstBytes)

\* C7: the marker-A and marker-B windows are disjoint (offsetA+burstBytes < offsetB,
\* offsetB+burstBytes <= totalRingBytes), so no ring read offset satisfies both
\* memberships in any state of the tone thread.
C7_WindowsDisjoint ==
  ThreadInLoop =>
    /\ t.bip_start_dx <= t.bip_end_dx
    /\ t.bip_end_dx < t.bop_start_dx
    /\ t.bop_start_dx <= t.bop_end_dx
    /\ t.bop_end_dx <= t.bytes_total
    /\ t.bip_start_dx + SpecBurstBytes < t.bop_start_dx
    /\ t.bop_start_dx + SpecBurstBytes <= t.bytes_total
    /\ ~(InWindow(t.dx, t.bip_start_dx, t.bip_end_dx) = 1
           /\ InWindow(t.dx, t.bop_start_dx, t.bop_end_dx) = 1)
    /\ ~(t.is_bip = 1 /\ t.is_bop = 1)

\* the memberships have been evaluated for a chunk beyond the start of window B
C7_Witness == t.pc = "bip" /\ t.chunk_dx > t.bop_start_dx

\* C8: with audio configured, a clear called at any point after a successful init
\* terminates: the tone thread sees the stop request and exits, the join returns
\* and clear returns success.
C8_ClearTerminates ==
  (cpc = "clr_lock") ~> (cpc = "idle" /\ ret = 0 /\ life = "cleared" /\ t.pc = "none")

\* clear has requested the stop before the tone thread ran its first instruction
C8_Witness == cpc = "clr_join" /\ t.pc = "start" /\ audio_thread_must_stop = 1

-----------------------------------------------------------------------------
(* Properties of the byte packing *)

-----------------------------------------------------------------------------
(* Properties of init's failure handling *)

\* the failure causes of init
InitCauses ==
  {"null_handle", "null_cfg", "plane_malloc", "audio_malloc", "no_bip", "no_bop",
   "mutex_init", "thread_alloc"}

\* the code init returns when c is the only thing that goes wrong
InitCode(c) ==
  LET settings == IF c = "no_bip" THEN WithAudio(8, 10, 1, 420, 8, 0, 0, 1500)
                  ELSE IF c = "no_bop" THEN WithAudio(8, 10, 1, 420, 8, 0, 500, 0)
                  ELSE ToneConfig
      fail     == IF c \in {"no_bip", "no_bop"} THEN "none" ELSE c
  IN InitResult(ZeroHandle, ApplyDefaults(settings), fail, ZeroHeap).ret

\* C12: init returns a different failure code for each failure cause (null handle,
\* null config, plane allocation, tone-buffer allocation, missing marker-A
\* frequency, missing marker-B frequency, mutex initialisation, thread spawn): each
\* cause is detected and no two causes share a code.
C12_DistinctFailureCodes ==
  (last.op = "init" /\ last.cause # "none") =>
    /\ ret # 0
    /\ \A c2 \in InitCauses \ {last.cause} : ret # InitCode(c2)

\* C13: whenever init returns a failure code, every resource it acquired during
\* that call (plane buffer, tone ring buffer, mutex) has been released before it
\* returns, and no tone thread is left running.
C13_FailedInitReleasesAll ==
  [][(heap'.inits = heap.inits + 1 /\ ret' # 0) =>
       /\ heap'.planes = heap.planes
       /\ heap'.rings = heap.rings
       /\ heap'.mutexes = heap.mutexes
       /\ heap'.threads = heap.threads
       /\ t'.pc = "none"]_vars

\* C14: after init fails, the handle is not a usable generator: a subsequent
\* update returns an error code and produces no frame.
C14_FailedInitNotUsable ==
  (life = "failed" /\ last = UpdateReturned) =>
    /\ ret # 0
    /\ g.frame = 0
    /\ wr = NoWrites

-----------------------------------------------------------------------------
(* Properties of clear *)

\* C16: after clear returns success, every field of the handle is zero/null: the
\* Y, U and V plane pointers, width, height, frame, step, perc, the byte counts,
\* the tone buffer and thread handle, all audio parameters, and the stop-requested
\* and marker flags.
C16_ClearZeroesHandle ==
  life = "cleared" =>
    /\ g.y.null /\ g.u.null /\ g.v.null
    /\ g.width = 0 /\ g.height = 0 /\ g.frame = 0 /\ g.step_den = 0 /\ g.percN = 0
    /\ g.ybytes = 0 /\ g.ubytes = 0 /\ g.vbytes = 0 /\ g.nbytes = 0
    /\ ~g.audio_buffer /\ ~g.audio_thread /\ ~g.audio_callback
    /\ g.audio_nchannels = 0 /\ g.audio_nseconds = 0 /\ g.audio_samplerate = 0
    /\ g.audio_bip_frequency = 0 /\ g.audio_bop_frequency = 0
    /\ g.audio_bip_millis = 0 /\ g.audio_bop_millis = 0
    /\ g.audio_nbytes = 0 /\ g.audio_nsamples = 0
    /\ audio_thread_must_stop = 0 /\ audio_is_bip = 0 /\ audio_is_bop = 0

\* C17: after clear returns on a generator whose tone thread was running, the plane
\* buffer, the tone ring buffer, the thread handle object and the mutex have all
\* been released (stated for the first init/clear cycle, where nothing was
\* allocated before).
C17_ClearReleasesAll ==
  [][(ClearJoin /\ heap.inits = 1 /\ ret' = 0) =>
       /\ heap'.planes = 0
       /\ heap'.rings = 0
       /\ heap'.threads = 0
       /\ heap'.mutexes = 0]_vars

\* C15: clear is idempotent and safe: called on an already-cleared handle, on a
\* handle whose init failed part-way, or on a handle initialised without audio, it
\* frees no buffer twice, joins no thread, touches no mutex, and leaves the handle
\* in the same state as after a single clear.
C15_ClearIdempotent ==
  [][(CallClear /\ (life \in {"cleared", "failed"} \/ ~cfg.audio_callback)) =>
       /\ cpc' = "idle"
       /\ UNCHANGED <<audio_mutex, t, audio_thread_must_stop, audio_is_bip, audio_is_bop>>
       /\ heap'.rings = heap.rings /\ heap'.threads = heap.threads
       /\ heap'.mutexes = heap.mutexes
       /\ heap'.planes = IF g.y.null \/ ret' # 0 THEN heap.planes ELSE heap.planes - 1
       /\ heap'.planes >= 0
       /\ ret' = 0 => g'.y.null
       /\ ClearRest(g', heap').g = g' /\ ClearRest(g', heap').heap = heap'
       /\ life = "cleared" => (g' = g /\ heap' = heap)]_vars

\* a second clear has returned on a handle that was already cleared
C15_Witness ==
  life = "cleared" /\ last = ClearReturned /\ ret = 0 - 2 /\ heap.inits > 0

-----------------------------------------------------------------------------
(* Properties of update's checks *)

\* the bar window of handle gen lies inside the frame
BarInsideFrame(gen) ==
  LET bar == BarGeometry(gen)
  IN /\ 0 <= bar.start_y /\ bar.start_y < gen.height
     /\ bar.nlines >= 0
     /\ bar.start_y + bar.nlines <= gen.height
     /\ ~BarOutOfBounds(gen, bar)

\* C18: on a generator that was successfully initialised and not yet cleared,
\* every update returns success for every valid configuration and every value of
\* perc: 0 <= visibleStartY < height, visibleLineCount >= 0 and
\* visibleStartY + visibleLineCount <= height, so the defensive check never fires.
C18_UpdateAlwaysSucceeds ==
  life = "inited" =>
    /\ \A pn \in 0 .. (g.step_den - 1) : BarInsideFrame([g EXCEPT !.percN = pn])
    /\ calls = 0 =>
         \A hh \in 1 .. MaxBarHeight : \A pn \in 0 .. (g.step_den - 1) :
           BarInsideFrame([g EXCEPT !.height = hh, !.percN = pn])
    /\ last = UpdateReturned => ret = 0

\* an update has drawn the bar and the next window is clipped at the bottom edge
C18_Witness ==
  /\ life = "inited" /\ last = UpdateReturned /\ ret = 0 /\ wr.bar.y > 0
  /\ BarGeometry(g).start_y > 0
  /\ BarGeometry(g).nlines < g.height \div 5

\* C19: update called on an uninitialised or cleared handle (null handle, zero
\* width or zero height) returns an error code and changes nothing: the frame
\* counter, perc and the plane contents are unchanged and no lock is taken.
C19_UpdateRejectsUninitialised ==
  /\ [](life \in {"fresh", "cleared"} => (g.width = 0 /\ g.height = 0))
  /\ [][/\ (CallUpdate /\ (g.width = 0 \/ g.height = 0)) =>
             (ret' < 0 /\ UNCHANGED <<g, wr, audio_mutex, cpc, heap, life>>)
        /\ CallUpdateNull =>
             (ret' < 0 /\ UNCHANGED <<g, wr, audio_mutex, cpc, heap, life>>)]_vars

\* update has returned -2 on a handle that was cleared
C19_Witness ==
  life = "cleared" /\ last = UpdateReturned /\ ret = 0 - 2 /\ heap.inits > 0

-----------------------------------------------------------------------------
(* Properties of the locking *)

\* C20: the mutex is never held by the tone thread while the audio callback
\* executes, and no thread acquires the mutex while already holding it: update
\* holds it only to copy the two marker flags, clear only to set stop-requested,
\* the tone thread only to read stop-requested or to write one marker flag.
C20_MutexDiscipline ==
  /\ audio_mutex \in {"free", "caller", "tone"}
  /\ audio_mutex = "tone" => t.pc = "read"
  /\ audio_mutex = "caller" => cpc \in {"upd_read", "clr_set"}
  /\ t.pc \in {"lock", "poll", "deliver", "bip", "bop"} => audio_mutex # "tone"
  /\ cpc \in {"upd_lock", "clr_lock", "clr_join"} => audio_mutex # "caller"

\* the callback is about to run while update holds the mutex to copy the flags
C20_Witness == t.pc = "deliver" /\ audio_mutex = "caller" /\ cpc = "upd_read"

\* C21: every read and every write of the three shared flags (markerA-active,
\* markerB-active, stop-requested) by the caller thread or the tone thread happens
\* while that thread holds the mutex, in every interleaving of init, update, clear
\* and the tone loop. (The tone thread's lock, write, unlock of a marker flag is one
\* step, taken when the mutex is free.)
C21_FlagsUnderMutex ==
  /\ [](/\ t.pc = "read" => audio_mutex = "tone"
        /\ cpc = "upd_read" => audio_mutex = "caller"
        /\ cpc = "clr_set" => audio_mutex = "caller")
  /\ [][/\ audio_thread_must_stop' # audio_thread_must_stop =>
             (cpc = "clr_set" /\ audio_mutex = "caller")
        /\ (audio_is_bip' # audio_is_bip \/ audio_is_bop' # audio_is_bop) =>
             (t.pc \in {"bip", "bop"} /\ audio_mutex = "free")
        /\ (t'.pc # "none" /\ t'.must_stop # t.must_stop) =>
             (t.pc = "read" /\ audio_mutex = "tone")]_vars

\* update copies the marker flags under the mutex while the tone thread, which has
\* made a callback, waits for the mutex to read the stop request
C21_Witness ==
  cpc = "upd_read" /\ audio_mutex = "caller" /\ t.pc = "lock" /\ delivered > 0


-----------------------------------------------------------------------------
(* Properties of the audio callback *)

\* C22: the audio callback is invoked only by the tone thread and only between a
\* successful init with audio and the return of clear: it is never invoked on the
\* caller's thread, never after clear has returned, and never when init was given
\* no audio callback (in which case no thread is spawned).
C22_CallbackOnlyFromToneThread ==
  /\ [](/\ life \in {"fresh", "cleared", "failed"} => t.pc = "none"
        /\ ~cfg.audio_callback => (t.pc = "none" /\ delivered = 0))
  /\ [][delivered' > delivered =>
          /\ t.pc = "deliver" /\ t'.pc = "bip"
          /\ cpc' = cpc /\ last' = last
          /\ cfg.audio_callback /\ g.audio_callback
          /\ life \in {"inited", "unbacked"} /\ life' = life]_vars

\* the thread has invoked the callback while the caller is inside update
C22_Witness ==
  life = "inited" /\ cpc = "upd_lock" /\ t.pc = "bip" /\ delivered > 0


\* C23: after clear has set stop-requested, the tone thread invokes the audio
\* callback at most once more before it exits.
C23_AtMostOneCallbackAfterStop ==
  stop_at >= 0 =>
    /\ delivered <= stop_at + 1
    /\ (delivered = stop_at + 1 /\ t.pc \notin {"none", "done"}) =>
         t.pc \in {"bip", "bop", "lock", "read", "exit"}

\* the thread made one more callback after the stop request and has returned
C23_Witness ==
  stop_at >= 0 /\ delivered = stop_at + 1 /\ t.pc = "done" /\ cpc = "clr_join"


\* the chunk of the last delivery lies inside the part of the ring that starts at
\* offset lo and is one burst long
ChunkInside(lo) ==
  t.chunk_dx >= lo /\ t.chunk_dx + t.nbytes <= lo + SpecBurstBytes

\* C24: while the tone thread runs without being stopped, in every full pass over
\* the ring the markerA flag is set to true when the marker-A (bip) part of the ring
\* is passed to the callback, and likewise markerB for the marker-B (bop) part: after
\* an iteration that delivered a chunk lying inside the marker part, the flag is true.
C24_MarkerFlagsRaisedInPass ==
  (t.pc = "lock" /\ t.armed /\ t.must_stop = 0) =>
    /\ ChunkInside(SpecOffsetA) => audio_is_bip = 1
    /\ ChunkInside(SpecOffsetB) => audio_is_bop = 1


-----------------------------------------------------------------------------
(* Properties of the pixel layout *)

\* the layout table of the specification, with the chroma factors doubled
SpecChromaFactors(format) ==
  IF format = 400 THEN <<0, 0>>
  ELSE IF format = 422 THEN <<1, 2>>
  ELSE IF format = 444 THEN <<2, 2>>
  ELSE <<1, 1>>
SpecSampleLayout(bitdepth) ==
  IF bitdepth = 10 THEN <<2, 4>> ELSE IF bitdepth = 12 THEN <<2, 16>> ELSE <<1, 1>>

\* C25: PixelLayout is total: for every format code and bit depth value (including
\* 0 and unknown values) init derives (uFactor,vFactor) = (0,0) for 400, (0.5,0.5)
\* for 420, (0.5,1.0) for 422, (1,1) for 444 and (0.5,0.5) for anything else, and
\* (bytesPerSample,bitDepthScale) = (1,1) for 8, (2,4) for 10, (2,16) for 12 and
\* (1,1) for anything else; no input makes init fail on layout grounds.
C25_LayoutTotal ==
  [][heap'.inits = heap.inits + 1 =>
       /\ ret' = 0 /\ life' = "inited"
       /\ <<g'.u_factor, g'.v_factor>> = SpecChromaFactors(cfg.format)
       /\ <<g'.pixel_size_in_bytes, g'.pixel_factor>> = SpecSampleLayout(cfg.bitdepth)
       /\ g'.ubytes = ((cfg.width * g'.u_factor) \div 2) * ((cfg.height * g'.v_factor) \div 2)
                        * g'.pixel_size_in_bytes]_vars

\* init has returned 0 for format code 411 and bit depth 14, neither of which has a
\* case: 4:2:0 factors and 1-byte samples
C25_Witness ==
  /\ life = "inited" /\ cfg.format = 411 /\ cfg.bitdepth = 14 /\ ret = 0
  /\ g.u_factor = 1 /\ g.v_factor = 1
  /\ g.pixel_size_in_bytes = 1 /\ g.pixel_factor = 1


-----------------------------------------------------------------------------
(* Properties of the sweep bar *)

\* [startY, startY + barHeight) intersected with [0, height), for perc = pn / den
SpecBarRows(height, pn, den) ==
  LET barHeight == height \div 5
      startY    == (0 - barHeight) + ((pn * (height - 1 + barHeight)) \div den)
  IN { r \in startY .. (startY + barHeight - 1) : 0 <= r /\ r < height }

\* C26: in each update the set of luma rows covered by the sweep bar is exactly
\* [startY, startY+barHeight) intersected with the visible window [0, height), where
\* barHeight = height/5 and startY = -barHeight + floor(perc*(height-1+barHeight));
\* in particular the bottom row height-1 is covered whenever it lies in
\* [startY, startY+barHeight). perc is the value the geometry of that update reads.
C26_BarRows ==
  [][(life = "inited" /\ calls' = calls + 1) =>
       wr'.rows = SpecBarRows(g.height, g.percN, g.step_den)]_vars


\* C27: within one update the steps run in the stated order: perc is advanced (and
\* wrapped) first, and the bar geometry of that frame is computed from the advanced
\* value, the same value the bar colour uses; so the first frame after init is
\* positioned with perc = step, not perc = 0. (g' holds the advanced perc, from which
\* the colour is taken.)
C27_GeometryFromAdvancedPerc ==
  [][(life = "inited" /\ calls' = calls + 1) =>
       /\ wr'.rows = bar_rows(BarGeometry(g'))
       /\ calls = 0 => wr'.rows = bar_rows(BarGeometry([g EXCEPT !.percN = 1]))]_vars


-----------------------------------------------------------------------------
(* Properties of the background bands *)

\* the Y values of white, yellow, cyan, green, magenta, red and blue
SpecBandLuma == <<235, 210, 169, 144, 107, 82, 41>>

\* C28: after update, the background consists of 7 equal-width full-height bands
\* that together span the frame width: every luma column x in [0, width) belongs to
\* exactly one band and holds that band's Y value (outside the bar and the box), in
\* the left-to-right order white, yellow, cyan, green, magenta, red, blue; no column
\* is left at the cleared value 0.
C28_BandsSpanWidth ==
  (life = "inited" /\ calls > 0) =>
    /\ \A b \in wr.bandcols : b.value = SpecBandLuma[b.band + 1] * g.pixel_factor
    /\ \A b1, b2 \in wr.bandcols :
         /\ b1.hi - b1.lo = b2.hi - b2.lo
         /\ b1.band < b2.band => b1.hi <= b2.lo
    /\ \A x \in 0 .. (g.width - 1) :
         Cardinality({ b \in wr.bandcols : b.lo <= x /\ x < b.hi }) = 1


\* the bytes of a sample of value val as the band fill packs it
SpecPacked(val, size, be) ==
  IF size = 1 THEN << val >>
  ELSE IF be = 0 THEN << val % 256, val \div 256 >>
  ELSE << val \div 256, val % 256 >>

\* C29: the sweep bar is packed identically to the bands: in the chroma rows
\* obtained by scaling the bar's luma row range by the chroma factors (as the band
\* fill scales a rectangle), every U sample equals the scaled bar U value and every
\* V sample the scaled bar V value, each packed in bytesPerSample bytes in the
\* configured byte order, for all formats and bit depths.
C29_BarPackedLikeBands ==
  (life = "inited" /\ calls > 0 /\ wr.rows # {}) =>
    LET yy   == ScaleBy(Min(wr.rows), g.v_factor)
        hh   == ScaleBy(Cardinality(wr.rows), g.v_factor)
        cw   == ScaleBy(g.width, g.u_factor)
        size == g.pixel_size_in_bytes
    IN /\ (hh > 0 /\ cw > 0) => \A pl \in {"u", "v"} : \E p \in wr.barchroma : p.plane = pl
       /\ \A p \in wr.barchroma :
            /\ p.lo = yy * cw * size
            /\ p.hi = (yy + hh) * cw * size
            /\ p.bytes = SpecPacked(p.value, size, g.byte_order)


-----------------------------------------------------------------------------
(* Properties of the timestamp text *)

\* C30: the update that produces frame number N (N counted from 0 since init)
\* renders the text mm:ss with ss = floor(N/fps) mod 60 and
\* mm = floor(floor(N/fps)/60) mod 60; the text always consists of exactly five
\* characters from the 11-glyph set (digits and colon), so the unknown-character
\* branch is never taken. (Stated for frames large enough to get the box.)
C30_TimestampText ==
  [][(life = "inited" /\ calls' = calls + 1 /\ DrawsTextBox(g)) =>
       LET secs == g.frame \div cfg.fps
           ss   == secs % 60
           mm   == (secs \div 60) % 60
       IN /\ wr'.text = << 48 + (mm \div 10), 48 + (mm % 10), 58,
                           48 + (ss \div 10), 48 + (ss % 10) >>
          /\ Len(wr'.text) = 5
          /\ \A i \in 1..Len(wr'.text) : wr'.text[i] \in 48..58
          /\ wr'.unknown = 0
          /\ wr'.glyph.y > 0]_vars

\* frame 7199 at 2 frames per second has been rendered with the text 59:59
C30_Witness ==
  /\ life = "inited" /\ cfg.fps = 2 /\ g.frame = 7200
  /\ wr.text = << 53, 57, 58, 53, 57 >> /\ wr.unknown = 0



-----------------------------------------------------------------------------
(* Properties of the timestamp box, the delivered chunks and the ring *)

\* the box colour the marker flags call for
SpecBoxColour(audio, is_bip, is_bop) ==
  IF audio /\ is_bop = 1 THEN <<255, 0, 0>>
  ELSE IF audio /\ is_bip = 1 THEN <<0, 0, 255>>
  ELSE <<0, 0, 0>>

\* C31: the timestamp box is drawn if and only if width > 170 and height > 100;
\* its fill colour is red when the copied marker B flag is true, blue when marker A
\* is true and marker B is false, and black otherwise; when audio is not configured
\* the box is always black and update never touches the mutex or the marker flags.
C31_TimestampBox ==
  /\ [](~g.audio_buffer => cpc \notin {"upd_lock", "upd_read"})
  /\ [][(calls' = calls + 1 /\ ret' = 0) =>
          LET want == SpecBoxColour(g.audio_buffer, audio_is_bip, audio_is_bop)
          IN /\ (wr'.box.y > 0) <=> (g.width > 170 /\ g.height > 100)
             /\ <<upd'.text_r, upd'.text_g, upd'.text_b>> = want
             /\ (wr'.box.y > 0 /\ g.pixel_size_in_bytes = 2) =>
                  \E p \in wr'.packed :
                    /\ p.step = "box" /\ p.plane = "y"
                    /\ p.value = RGB2Y(want[1], want[2], want[3]) * g.pixel_factor
             /\ ~g.audio_buffer =>
                  UNCHANGED <<audio_mutex, audio_is_bip, audio_is_bop, cpc>>]_vars

\* an update has drawn a red box while both marker flags were set
C31_Witness ==
  /\ last = UpdateReturned /\ ret = 0 /\ wr.box.y > 0
  /\ g.audio_buffer /\ audio_is_bip = 1 /\ audio_is_bop = 1
  /\ upd.text_r = 255 /\ upd.text_b = 0


\* the copies hand over every byte of the chunk that starts at ring offset offset:
\* the runs follow one another from chunk byte 0 to chunk byte nbytes - 1 and each is
\* taken from the ring position of its first byte, modulo the ring size
ChunkComplete(copies, offset, nbytes, total) ==
  /\ Len(copies) > 0
  /\ copies[1].to = 0
  /\ \A i \in 1..Len(copies) :
       /\ copies[i].from = (offset + copies[i].to) % total
       /\ copies[i].from + copies[i].n <= total
  /\ \A i \in 1..(Len(copies) - 1) : copies[i + 1].to = copies[i].to + copies[i].n
  /\ copies[Len(copies)].to + copies[Len(copies)].n = nbytes

\* C32: for every delivery the callback receives exactly chunkBytes bytes with
\* frameCount = chunkBytes / (2 * channels), and byte i of the delivered chunk equals
\* ring[(offset + i) mod totalRingBytes] for every i, including chunks that cross
\* the ring end (no missing or unwritten byte).
C32_ChunkIsRingContent ==
  (t.pc \notin {"none", "start"} /\ delivered > 0) =>
    LET chunkBytes == AUDIO_NSAMPLES * SIZEOF_INT16 * AUDIO_NCHANNELS
    IN /\ t.chunk_args = <<chunkBytes, chunkBytes \div (2 * AUDIO_NCHANNELS)>>
       /\ ChunkComplete(t.chunk_copies, t.chunk_dx, chunkBytes, t.bytes_total)


\* C33: after a successful init with audio, the ring frames written with tone
\* samples are exactly [sampleRate, sampleRate + N) for marker A and
\* [3 * sampleRate, 3 * sampleRate + N) for marker B with
\* N = burstMillis * sampleRate / 1000 = 4410 frames, and every other frame of the
\* ring is silence.
C33_RingToneFrames ==
  (life = "inited" /\ g.audio_buffer) =>
    LET N == (g.audio_bip_millis * g.audio_samplerate) \div 1000
    IN /\ N = 4410
       /\ heap.ring_tone =
            { [marker |-> "bip", lo |-> g.audio_samplerate, hi |-> g.audio_samplerate + N],
              [marker |-> "bop", lo |-> 3 * g.audio_samplerate,
               hi |-> 3 * g.audio_samplerate + N] }


\* C34: if the tone thread cannot allocate its scratch chunk buffer at start, it
\* terminates immediately: it never enters the delivery loop, never invokes the
\* callback and never uses the null scratch buffer; a later clear still joins it
\* and returns.
C34_NoScratchNoLoop ==
  (t.pc \notin {"none", "start"} /\ ~t.tmp_buffer) =>
    /\ t.pc \in {"exit", "done"}
    /\ delivered = 0
    /\ cpc # "crashed"


\* C35: with the monotonic clock a non-decreasing integer, the tone thread delivers
\* a chunk only when the current time has passed the next scheduled delivery time,
\* and the scheduled delivery time advances by exactly one chunk period per
\* delivery: the k-th delivery is scheduled at the first delivery time plus k chunk
\* periods, independent of how late each poll observed the deadline.
C35_FixedSchedule ==
  /\ [][/\ t'.pc # "none" => t'.now >= t.now
        /\ delivered' > delivered => t.now > t.timeout]_vars
  /\ [](t.pc \in {"lock", "read", "poll"} /\ delivered > 0 =>
          t.timeout = t.first_now + delivered * ChunkDelay(AUDIO_NSAMPLES, AUDIO_SAMPLERATE))


-----------------------------------------------------------------------------
(* Properties of the restart of the tone thread *)

\* C36: after every successful init with audio, including an init that follows a
\* clear of the same handle, the three shared flags stop-requested, markerA-active
\* and markerB-active are false before the tone thread runs its first iteration,
\* regardless of their values before the call.
C36_FlagsResetByInit ==
  (life = "inited" /\ g.audio_thread /\ t.pc = "start" /\ cpc = "idle") =>
    /\ audio_thread_must_stop = 0
    /\ audio_is_bip = 0
    /\ audio_is_bop = 0

\* C37: the lifecycle init, clear, init on the same handle with audio configured
\* both times restarts the tone thread: the thread spawned by the second init
\* reaches Running and, if not stopped, invokes the callback; it does not exit on
\* its first poll because of a stale stop request. A thread leaves its loop only
\* after a clear has requested the stop of that thread.
C37_RestartedThreadRuns ==
  (heap.inits = 2 /\ t.pc \in {"exit", "done"}) => stop_at >= 0


\* C38: in every interleaving of clear with the tone thread, the ring buffer is
\* freed only after the tone thread has exited its loop: the tone thread never
\* reads the ring, and the callback never receives a pointer into it, after the
\* buffer has been freed.
C38_RingFreedAfterThread ==
  /\ [][heap'.rings < heap.rings => (t.pc = "done" /\ cpc = "clr_join")]_vars
  /\ [](t.pc \in {"lock", "read", "poll", "deliver", "bip", "bop"} =>
          (heap.rings = 1 /\ g.audio_buffer))

\* clear has returned and freed the ring, and the thread had delivered a chunk from
\* the ring after clear had requested its stop
C38_Witness ==
  /\ last = ClearReturned /\ cpc = "idle" /\ t.pc = "none"
  /\ heap.rings = 0 /\ ~g.audio_buffer
  /\ stop_at >= 0 /\ delivered > stop_at


-----------------------------------------------------------------------------
(* Properties of the sample values *)

\* C39: the sweep-bar colour channels are computed without 8-bit wrap-around: for
\* every perc value reached by update, red = 255 - floor(perc * 255),
\* green = 30 + floor(perc * 235) and blue = 150 + floor(perc * 205) all lie in
\* [0, 255] when stored in their 8-bit variables.
C39_BarColourNoWrap ==
  (life = "inited" /\ last = UpdateReturned /\ ret = 0 /\ Len(wr.barcolour) = 3) =>
    LET floor(c) == (c * g.percN) \div g.step_den
        red   == 255 - floor(255)
        green == 30 + floor(235)
        blue  == 150 + floor(205)
    IN /\ {red, green, blue} \subseteq 0..255
       /\ wr.barcolour = <<red, green, blue>>


\* the sample two adjacent plane bytes hold, read in the configured byte order
Decode(first, second, be) == IF be # 0 THEN first * 256 + second ELSE first + 256 * second

\* C40: for bit depth 10 or 12, every 2-byte sample present in the Y, U and V planes
\* after update, decoded in the configured byte order, is at most
\* 255 * bitDepthScale and hence below 2^bitDepth.
C40_SamplesBelowDepth ==
  (life = "inited" /\ last = UpdateReturned /\ ret = 0 /\ cfg.bitdepth \in {10, 12}) =>
    LET limit == 255 * g.pixel_factor
    IN /\ limit < 2 ^ cfg.bitdepth
       /\ \A p \in wr.packed : Decode(p.first, p.second, g.byte_order) <= limit
       /\ \A c \in wr.barchroma : Decode(c.bytes[1], c.bytes[2], g.byte_order) <= limit

====
